---- MODULE Spec2Model ----
(***************************************************************************)
(* Model of the paged, versioned AVL+ tree of src/avl/avl_3.go (Avl3).     *)
(*                                                                         *)
(* Pointers are indices into a heap of node records (0 is nil).  A page is *)
(* the content commitPage lays out: the prefix, the leaf and arrow entries *)
(* in node order with their prefix-stripped keys, the structure bits and   *)
(* the byte length computed by pageSize.  The byte offsets of the layout   *)
(* are not modelled; everything deserialisePage reads back is.             *)
(***************************************************************************)
EXTENDS Integers, Sequences, FiniteSets, TLC

\* ------------------------------------------------------------- bounds
NumKeys == 3      \* keys are the one-byte strings <<1>> .. <<NumKeys>>
NumKeysD == 5     \* keys of SpecDeep
MaxOps == 6       \* calls per behaviour of Spec
MaxOpsD == 7      \* calls per behaviour of SpecDeep
MaxOpsF == 6      \* calls per behaviour of SpecFiles
MaxPage == 4      \* page ids of SpecIds
MaxFree == 2      \* length of the free list SpecIds starts with
MaxCalls == 4     \* calls per behaviour of SpecIds
MaxOpsR == 9      \* calls per behaviour of SpecRecycle
MaxOpsL == 5      \* calls per behaviour of SpecLong
MaxOpsT == 5      \* calls per behaviour of SpecTorn
MaxOpsV == 6      \* calls per behaviour of SpecValues
MaxOpsA == 7      \* calls per behaviour of SpecTiny

\* --------------------------------------------------- program constants
\* The page geometry is scaled down so that a page holds two leaves and a
\* tree of three leaves is split over pages: PageSize is 64 bytes and the
\* hash slots are empty.
PageSize == 64
InlineValueMax == 16
HashLength == 0
hashLength == 0

\* ------------------------------------------------------------- inputs
Keys == {<<k>> : k \in 1..NumKeys}
SmallVal == [i \in 1..8 |-> 1]     \* stored inline in the leaf
BigVal == [i \in 1..17 |-> 2]      \* longer than InlineValueMax: stored by value id
Vals == {SmallVal, BigVal}
BigVal2 == [i \in 1..18 |-> 3]     \* another value stored by value id
TinyVal == <<3>>                   \* three leaves with this value fit a page
NilKey == <<>>
LongKey == [i \in 1..PageSize |-> 9]   \* a key as long as a page
NilVal == <<>>

\* ------------------------------------------------------------ helpers
Min2(a, b) == IF a < b THEN a ELSE b

maxu32(a, b) == IF a > b THEN a ELSE b

\* bytes.Compare: lexicographic order on byte strings
compare(a, b) ==
    LET First(d) ==
            IF d = {}
            THEN (IF Len(a) < Len(b) THEN -1 ELSE IF Len(a) > Len(b) THEN 1 ELSE 0)
            ELSE LET i == CHOOSE j \in d : \A k \in d : j <= k
                 IN  IF a[i] < b[i] THEN -1 ELSE 1
    IN  First({i \in 1..Min2(Len(a), Len(b)) : a[i] # b[i]})

commonPrefix(a, b) ==
    LET First(d) ==
            IF d = {} THEN Min2(Len(a), Len(b))
            ELSE (CHOOSE j \in d : \A k \in d : j <= k) - 1
    IN  SubSeq(a, 1, First({i \in 1..Min2(Len(a), Len(b)) : a[i] # b[i]}))

Suffix(k, prefixLen) == SubSeq(k, prefixLen + 1, Len(k))

\* ------------------------------------------------------- node records
Leaf3(key, value, valueLen) ==
    [t |-> "L", arrow |-> 0, pinnedPageId |-> 0, key |-> key, value |-> value,
     valueId |-> 0, valueLen |-> valueLen]

Fork3(max, height, left, right) ==
    [t |-> "F", arrow |-> 0, pinnedPageId |-> 0, height |-> height,
     left |-> left, right |-> right, max |-> max]

Arrow3(pageId, height, max, arrow, parentC) ==
    [t |-> "A", arrow |-> arrow, pageId |-> pageId, height |-> height, max |-> max,
     parent |-> 0, parentC |-> parentC]

getheight(h, r) == IF h[r].t = "L" THEN 1 ELSE h[r].height

getmax(h, r) == IF h[r].t = "L" THEN h[r].key ELSE h[r].max

\* allocation of a node: the new node is the last one of the heap
New(h, rec) == Append(h, rec)


\* ------------------------------------------------------------- pages
\* An entry of a page: an arrow (isPage) or a leaf, in node order.
ArrowEntry(r, prefixLen) ==
    [isPage |-> TRUE, key |-> Suffix(r.max, prefixLen), pageId |-> r.pageId,
     height |-> r.height, valueLen |-> 0, value |-> NilVal, valueId |-> 0]

\* a faulty LeafEntry: the key is stored whole, the page's prefix included
LeafEntryWhole(r, valueId, prefixLen) ==
    [isPage |-> FALSE, key |-> r.key, pageId |-> 0, height |-> 0,
     valueLen |-> r.valueLen,
     value |-> IF r.valueLen > InlineValueMax THEN NilVal ELSE r.value,
     valueId |-> IF r.valueLen > InlineValueMax THEN valueId ELSE 0]

LeafEntry(r, valueId, prefixLen) ==
    [isPage |-> FALSE, key |-> Suffix(r.key, prefixLen), pageId |-> 0, height |-> 0,
     valueLen |-> r.valueLen,
     value |-> IF r.valueLen > InlineValueMax THEN NilVal ELSE r.value,
     valueId |-> IF r.valueLen > InlineValueMax THEN valueId ELSE 0]

NoPage == [prefix |-> <<>>, nodes |-> <<>>, sbits |-> <<>>, size |-> 0]

\* the bytes deserialisePage reads for pageId: a page never written reads as
\* nil (memory) or as zeroes (file), and both give nodeCount = 0
ReadPage(t, pageId) ==
    IF t.files
    THEN (IF pageId \in DOMAIN t.pageFile THEN t.pageFile[pageId] ELSE NoPage)
    ELSE (IF pageId \in DOMAIN t.pageMap THEN t.pageMap[pageId] ELSE NoPage)

MarkPinned(h, r, pageId) ==
    IF h[r].t \in {"L", "F"} THEN [h EXCEPT ![r].pinnedPageId = pageId] ELSE h

PinStack(h, stack, pinned, pageId, i) ==
    IF pinned[i] THEN MarkPinned(h, stack[i], pageId) ELSE h

RECURSIVE PinAll(_, _, _, _, _)
PinAll(h, stack, pinned, pageId, i) ==
    IF i > Len(stack) THEN h
    ELSE PinAll(PinStack(h, stack, pinned, pageId, i), stack, pinned, pageId, i + 1)

\* one structure bit of the loop of deserialisePage
dsStep(page, pageId, key, height, st) ==
    LET sbit == IF st.structBit < Len(page.sbits)
                THEN page.sbits[st.structBit + 1] = 1 ELSE FALSE
        top == Len(st.stack)
    IN  IF st.noLeaf
        THEN IF sbit
             THEN \* close a fork: pop the right child x, attach it to the fork y
                  IF top < 2 \/ st.h[st.stack[top - 1]].t # "F"
                  THEN [st EXCEPT !.err = TRUE]
                  ELSE
                  LET x == st.stack[top]
                      y == st.stack[top - 1]
                      xPinned == st.pinned[top]
                      yPinned == st.pinned[top - 1]
                      yh == maxu32(st.h[y].height, 1 + getheight(st.h, x))
                      ymax == getmax(st.h, x)
                      Pin(g) == IF xPinned
                                THEN (IF yPinned THEN g ELSE MarkPinned(g, x, pageId))
                                ELSE (IF yPinned THEN MarkPinned(g, g[y].left, pageId) ELSE g)
                  IN  [st EXCEPT !.h = Pin([st.h EXCEPT ![y].right = x, ![y].height = yh,
                                                        ![y].max = ymax]),
                                 !.stack = SubSeq(st.stack, 1, top - 1),
                                 !.pinned = Append(SubSeq(st.pinned, 1, top - 2),
                                                   IF ~xPinned /\ yPinned THEN FALSE ELSE yPinned),
                                 !.point = IF yh = height /\ ymax = key THEN y ELSE st.point,
                                 !.noLeaf = TRUE,
                                 !.structBit = st.structBit + 1]
             ELSE \* open a fork over the top of the stack
                  [st EXCEPT !.h = New(st.h, Fork3(NilKey, 1 + getheight(st.h, st.stack[top]),
                                                   st.stack[top], 0)),
                             !.stack = [st.stack EXCEPT ![top] = Len(st.h) + 1],
                             !.noLeaf = FALSE,
                             !.structBit = st.structBit + 1]
        ELSE \* read the next node: an arrow or a leaf
             IF st.nodeIndex >= Len(page.nodes)
             THEN [st EXCEPT !.err = TRUE]
             ELSE
             LET e == page.nodes[st.nodeIndex + 1]
                 k == page.prefix \o e.key
                 r == Len(st.h) + 1
             IN  [st EXCEPT !.h = New(st.h, IF e.isPage
                                            THEN Arrow3(e.pageId, e.height, k, 0, 0)
                                            ELSE [Leaf3(k, e.value, e.valueLen)
                                                     EXCEPT !.valueId = e.valueId]),
                            !.stack = Append(st.stack, r),
                            !.pinned = Append(st.pinned, ~sbit),
                            !.point = IF ~e.isPage /\ height = 1 /\ k = key THEN r ELSE st.point,
                            !.releaseId = st.releaseId /\ sbit,
                            !.nodeIndex = st.nodeIndex + 1,
                            !.noLeaf = TRUE,
                            !.structBit = st.structBit + 1]

RECURSIVE dsLoop(_, _, _, _, _)
dsLoop(page, pageId, key, height, st) ==
    LET nodeCount == Len(page.nodes)
        maxStructBits == 32 * ((Len(page.sbits) + 31) \div 32)
        sbit == IF st.structBit < Len(page.sbits)
                THEN page.sbits[st.structBit + 1] = 1 ELSE FALSE
    IN  IF st.err THEN st
        ELSE IF ~(st.nodeIndex < nodeCount \/ st.structBit < maxStructBits) THEN st
        ELSE IF ~sbit /\ st.nodeIndex = nodeCount THEN st   \* padding bits
        ELSE dsLoop(page, pageId, key, height, dsStep(page, pageId, key, height, st))

\* a faulty deserialisePage: every page read is reported as free of pins
deserialisePageFree(t, h, pageId, key, height) ==
    LET st0 == [h |-> h, stack |-> <<>>, pinned |-> <<>>, nodeIndex |-> 0,
                structBit |-> 0, noLeaf |-> FALSE, releaseId |-> TRUE,
                point |-> 0, err |-> FALSE]
        Done(st) ==
            IF st.err
            THEN [h |-> h, point |-> 0, releaseId |-> FALSE, err |-> TRUE]
            ELSE [h |-> PinAll(st.h, st.stack, st.pinned, pageId, 1),
                  point |-> IF key = NilKey /\ height = 0 /\ st.point = 0
                            THEN st.stack[1] ELSE st.point,
                  releaseId |-> TRUE, err |-> FALSE]
        Read(page) ==
            IF Len(page.nodes) = 0
            THEN [h |-> h, point |-> 0, releaseId |-> FALSE, err |-> FALSE]
            ELSE Done(dsLoop(page, pageId, key, height, st0))
    IN  Read(ReadPage(t, pageId))

\* deserialisePage: the nodes of the page are allocated on the heap h;
\* point = 0 is nil
deserialisePage(t, h, pageId, key, height) ==
    LET st0 == [h |-> h, stack |-> <<>>, pinned |-> <<>>, nodeIndex |-> 0,
                structBit |-> 0, noLeaf |-> FALSE, releaseId |-> TRUE,
                point |-> 0, err |-> FALSE]
        Done(st) ==
            IF st.err
            THEN [h |-> h, point |-> 0, releaseId |-> FALSE, err |-> TRUE]
            ELSE [h |-> PinAll(st.h, st.stack, st.pinned, pageId, 1),
                  point |-> IF key = NilKey /\ height = 0 /\ st.point = 0
                            THEN st.stack[1] ELSE st.point,
                  releaseId |-> st.releaseId, err |-> FALSE]
        Read(page) ==
            IF Len(page.nodes) = 0
            THEN [h |-> h, point |-> 0, releaseId |-> FALSE, err |-> FALSE]
            ELSE Done(dsLoop(page, pageId, key, height, st0))
    IN  Read(ReadPage(t, pageId))

\* ------------------------------------------------- page and value ids
\* a faulty nextPageId: always a page id never used before
nextPageIdFresh(t) ==
    [t |-> [t EXCEPT !.maxPageId = @ + 1,
                     !.allocs = Append(@, [recycle |-> t.pagesToRecycle,
                                           freelist |-> t.freelist,
                                           maxPageId |-> t.maxPageId,
                                           id |-> t.maxPageId + 1])],
     id |-> t.maxPageId + 1]

\* nextPageId: [t, id]; allocs records each call (the recycle set, the free
\* list and maxPageId it found, the id it returned) since Commit began
nextPageId(t) ==
    LET call(id) == [recycle |-> t.pagesToRecycle, freelist |-> t.freelist,
                     maxPageId |-> t.maxPageId, id |-> id]
    IN  IF t.pagesToRecycle \ {0} # {}
        THEN LET id == CHOOSE p \in t.pagesToRecycle : \A q \in t.pagesToRecycle : q <= p
             IN  [t |-> [t EXCEPT !.pagesToRecycle = @ \ {id},
                                  !.allocs = Append(@, call(id))],
                  id |-> id]
        ELSE IF Len(t.freelist) > 0
        THEN LET id == t.freelist[Len(t.freelist)]
             IN  [t |-> [t EXCEPT !.freelist = SubSeq(@, 1, Len(@) - 1),
                                  !.allocs = Append(@, call(id))],
                  id |-> id]
        ELSE [t |-> [t EXCEPT !.maxPageId = @ + 1, !.allocs = Append(@, call(t.maxPageId + 1))],
              id |-> t.maxPageId + 1]

freePageId(t, pageId) ==
    IF pageId \in DOMAIN t.pageMap
    THEN [t EXCEPT !.pageMap = [p \in DOMAIN @ \ {pageId} |-> @[p]],
                   !.freelist = Append(@, pageId)]
    ELSE t

nextValueId(t) == t.maxValueId + 1

freeValueId(t, valueId) ==
    IF valueId = 0 THEN t
    ELSE [t EXCEPT !.valueMap = [v \in DOMAIN @ \ {valueId} |-> @[v]]]

\* WriteAt of the value file: bytes past the end extend the file
WriteAt(file, data, off) ==
    [i \in 1..maxu32(Len(file), off + Len(data)) |->
        IF i > off /\ i <= off + Len(data) THEN data[i - off]
        ELSE IF i <= Len(file) THEN file[i] ELSE 0]

addValue(t, valueId, value) ==
    IF ~t.files
    THEN [t EXCEPT !.valueMap = [v \in DOMAIN @ \cup {valueId} |->
                                    IF v = valueId THEN value ELSE @[v]],
                   !.maxValueId = @ + 1]
    ELSE [t EXCEPT !.valueFile = WriteAt(@, value, valueId - 1),
                   !.maxValueId = @ + Len(value)]

\* Leaf3.nvalue: [val, err]; a value id missing from the map reads as nil and
\* a read past the end of the value file panics
nvalue(t, l) ==
    IF l.valueId = 0 THEN [val |-> l.value, err |-> FALSE]
    ELSE IF ~t.files
    THEN [val |-> IF l.valueId \in DOMAIN t.valueMap THEN t.valueMap[l.valueId] ELSE NilVal,
          err |-> FALSE]
    ELSE IF l.valueId - 1 + l.valueLen > Len(t.valueFile)
    THEN [val |-> NilVal, err |-> TRUE]
    ELSE [val |-> SubSeq(t.valueFile, l.valueId, l.valueId - 1 + l.valueLen), err |-> FALSE]

\* ---------------------------------------------------------------- Get
\* the descent shared by Get and by the scans that open Insert and Delete:
\* the leaf the key routes to (0 when the tree is nil), on a scratch heap
RECURSIVE Descend(_, _, _, _, _)
Descend(t, h, current, key, strict) ==
    LET Into(d) ==
            IF d.err \/ d.point = 0 THEN [h |-> h, leaf |-> 0, panic |-> TRUE]
            ELSE IF strict /\ getheight(d.h, d.point) # h[current].height
            THEN [h |-> h, leaf |-> 0, panic |-> TRUE]
            ELSE Descend(t, d.h, d.point, key, strict)
    IN  IF current = 0 THEN [h |-> h, leaf |-> 0, panic |-> FALSE]
        ELSE IF h[current].t = "L" THEN [h |-> h, leaf |-> current, panic |-> FALSE]
        ELSE IF h[current].t = "F"
        THEN Descend(t, h, IF compare(key, getmax(h, h[current].left)) <= 0
                           THEN h[current].left ELSE h[current].right, key, strict)
        ELSE Into(deserialisePage(t, h, h[current].pageId, h[current].max,
                                  h[current].height))

\* Get: [val, found, panic]
Get(t, key) ==
    LET Value(v) == [val |-> v.val, found |-> ~v.err, panic |-> v.err]
        Found(d) ==
            IF d.panic THEN [val |-> NilVal, found |-> FALSE, panic |-> TRUE]
            ELSE IF d.leaf = 0 \/ d.h[d.leaf].key # key
            THEN [val |-> NilVal, found |-> FALSE, panic |-> FALSE]
            ELSE Value(nvalue(t, d.h[d.leaf]))
    IN  Found(Descend(t, t.heap, t.root, key, FALSE))

\* a faulty Get: the node the descent starts from loses its arrow
GetNodesUnarrowed(t, key) ==
    IF t.root = 0 THEN t.heap ELSE [t.heap EXCEPT ![t.root].arrow = 0]

\* the nodes when Get returns: those of the engine as the descent leaves
\* them, and the nodes deserialisePage has allocated on the way
GetNodes(t, key) == Descend(t, t.heap, t.root, key, FALSE).h

\* IsLeaf: [leaf, panic]
RECURSIVE IsLeaf(_, _, _)
IsLeaf(t, h, r) ==
    LET Into(d) ==
            IF d.err \/ d.point = 0 THEN [leaf |-> FALSE, panic |-> TRUE]
            ELSE IsLeaf(t, d.h, d.point)
    IN  IF r = 0 THEN [leaf |-> FALSE, panic |-> TRUE]
        ELSE IF h[r].t = "A"
        THEN Into(deserialisePage(t, h, h[r].pageId, h[r].max, h[r].height))
        ELSE [leaf |-> h[r].t = "L", panic |-> FALSE]

\* ------------------------------------------------------ Peel and arrows
Set(h, n, f, v) == [h EXCEPT ![n][f] = v]

Panicked(t) == [t |-> [t EXCEPT !.panic = TRUE], r |-> 0]

\* a faulty Peel: the page it releases is freed at once instead of at Commit
PeelReleasing(t, r) ==
    LET Moved(g, a, point) ==
            IF a # 0
            THEN Set(Set(Set(g, a, "pageId", g[r].pageId), point, "arrow", a), r, "arrow", 0)
            ELSE g
        Into(d) ==
            IF d.err \/ d.point = 0 THEN Panicked(t)
            ELSE [t |-> freePageId([t EXCEPT !.heap = Moved(d.h, d.h[r].arrow, d.point)],
                                   d.h[r].pageId),
                  r |-> d.point]
    IN  IF t.panic \/ r = 0 THEN Panicked(t)
        ELSE IF t.heap[r].t = "A"
        THEN Into(deserialisePage(t, t.heap, t.heap[r].pageId, t.heap[r].max,
                                  t.heap[r].height))
        ELSE [t |-> t, r |-> r]

\* Peel: [t, r]; t.panic is set where the code panics
RECURSIVE Peel(_, _)
Peel(t, r) ==
    LET \* the arrow a of the peeled arrow r moves to the node the page gave
        Moved(g, a, point) ==
            IF a # 0
            THEN Set(Set(Set(g, a, "pageId", g[r].pageId), point, "arrow", a), r, "arrow", 0)
            ELSE g
        Into(d) ==
            IF d.err \/ d.point = 0 THEN Panicked(t)
            ELSE Peel([t EXCEPT !.heap = Moved(d.h, d.h[r].arrow, d.point),
                                !.pagesToRecycle =
                                    IF d.releaseId THEN @ \cup {d.h[r].pageId} ELSE @],
                      d.point)
    IN  IF t.panic \/ r = 0 THEN Panicked(t)
        ELSE IF t.heap[r].t = "A"
        THEN Into(deserialisePage(t, t.heap, t.heap[r].pageId, t.heap[r].max,
                                  t.heap[r].height))
        ELSE [t |-> t, r |-> r]

\* a faulty moveArrowOverFork: the arrow of the right child says it is a left
\* child
moveArrowOverForkLeft(t, a, f) ==
    LET h == t.heap
        fl == h[f].left
        fr == h[f].right
        lArrow == Len(h) + 1
        rArrow == Len(h) + 2
        fork == Len(h) + 3
        lrec == [Arrow3(IF h[fl].t = "A" THEN h[fl].pageId ELSE h[a].pageId,
                        getheight(h, fl), getmax(h, fl), 0, -1) EXCEPT !.parent = fork]
        rrec == [Arrow3(IF h[fr].t = "A" THEN h[fr].pageId ELSE h[a].pageId,
                        getheight(h, fr), getmax(h, fr), 0, -1) EXCEPT !.parent = fork]
        frec == [Fork3(h[f].max, h[f].height, lArrow, rArrow)
                    EXCEPT !.pinnedPageId = h[f].pinnedPageId]
        Linked(g) == [g EXCEPT ![f].arrow = 0, ![f].pinnedPageId = 0,
                               ![fl].arrow = lArrow, ![fr].arrow = rArrow]
        Hung(g) == IF h[a].parent = 0 THEN g
                   ELSE IF h[a].parentC = -1 THEN Set(g, h[a].parent, "left", fork)
                   ELSE IF h[a].parentC = 1 THEN Set(g, h[a].parent, "right", fork)
                   ELSE g
    IN  [t EXCEPT !.heap = Hung(Linked(New(New(New(h, lrec), rrec), frec))),
                  !.prevRoot = IF h[a].parent = 0 THEN fork ELSE @]

moveArrowOverFork(t, a, f) ==
    LET h == t.heap
        fl == h[f].left
        fr == h[f].right
        lArrow == Len(h) + 1
        rArrow == Len(h) + 2
        fork == Len(h) + 3
        lrec == [Arrow3(IF h[fl].t = "A" THEN h[fl].pageId ELSE h[a].pageId,
                        getheight(h, fl), getmax(h, fl), 0, -1) EXCEPT !.parent = fork]
        rrec == [Arrow3(IF h[fr].t = "A" THEN h[fr].pageId ELSE h[a].pageId,
                        getheight(h, fr), getmax(h, fr), 0, 1) EXCEPT !.parent = fork]
        frec == [Fork3(h[f].max, h[f].height, lArrow, rArrow)
                    EXCEPT !.pinnedPageId = h[f].pinnedPageId]
        Linked(g) == [g EXCEPT ![f].arrow = 0, ![f].pinnedPageId = 0,
                               ![fl].arrow = lArrow, ![fr].arrow = rArrow]
        Hung(g) == IF h[a].parent = 0 THEN g
                   ELSE IF h[a].parentC = -1 THEN Set(g, h[a].parent, "left", fork)
                   ELSE IF h[a].parentC = 1 THEN Set(g, h[a].parent, "right", fork)
                   ELSE g
    IN  [t EXCEPT !.heap = Hung(Linked(New(New(New(h, lrec), rrec), frec))),
                  !.prevRoot = IF h[a].parent = 0 THEN fork ELSE @]

moveArrowOverLeaf(t, a, l) ==
    LET h == t.heap
        leaf == Len(h) + 1
        Hung(g) == IF h[a].parent = 0 THEN g
                   ELSE IF h[a].parentC = -1 THEN Set(g, h[a].parent, "left", leaf)
                   ELSE IF h[a].parentC = 1 THEN Set(g, h[a].parent, "right", leaf)
                   ELSE g
        Copied(v) ==
            IF v.err THEN [t EXCEPT !.panic = TRUE]
            ELSE [t EXCEPT !.heap = Set(Hung(New(h, Leaf3(h[l].key, v.val, Len(v.val)))),
                                        l, "arrow", 0),
                           !.prevRoot = IF h[a].parent = 0 THEN leaf ELSE @]
    IN  Copied(nvalue(t, h[l]))

\* a faulty step: the fork keeps its arrow while it is changed
unarrowForkSkip(t, n) == t

\* "if n.arrow != nil { t.moveArrowOverFork(n.arrow, n) }"
unarrowFork(t, n) ==
    IF t.heap[n].arrow # 0 THEN moveArrowOverFork(t, t.heap[n].arrow, n) ELSE t

\* a faulty fixHeight: the height of the fork is left as it was
fixHeightStale(h, n) == h

\* "n.height = 1 + maxu32(n.left.getheight(), n.right.getheight())"
fixHeight(h, n) ==
    Set(h, n, "height", 1 + maxu32(getheight(h, h[n].left), getheight(h, h[n].right)))

\* the trace of a rotation: insert or delete, single (1) or double (2), from
\* right to left (RL) or from left to right (LR)
Rotated(e, h, msg) == [e EXCEPT !.heap = h, !.rotations = Append(@, msg)]

\* ------------------------------------------------------------- Insert
\* the peeled child as a fork with its arrow moved:
\* "x := t.Peel(r, key, i).(*Fork3); if x.arrow != nil { moveArrowOverFork }"
peelFork(t, r) ==
    LET Fork(p) ==
            IF p.t.panic THEN Panicked(p.t)
            ELSE IF p.t.heap[p.r].t # "F" THEN Panicked(p.t)
            ELSE [t |-> unarrowFork(p.t, p.r), r |-> p.r]
    IN  Fork(Peel(t, r))

\* insert, n heavy on the right by two
insertRotateLeft(t, n) ==
    LET \* single rotation from right to left: nr comes over n
        S1(h, nr) == fixHeight(Set(h, n, "right", h[nr].left), n)
        S2(h, nr) == Set(h, n, "max", getmax(h, h[nr].left))
        S3(h, nr) == fixHeight(Set(h, nr, "left", n), nr)
        \* double rotation from right to left: nrl comes over n and nr
        D1(h, nrl) == fixHeight(Set(h, n, "right", h[nrl].left), n)
        D2(h, nrl) == Set(h, n, "max", getmax(h, h[nrl].left))
        D3(h, nr, nrl) == Set(Set(h, nrl, "left", n), nr, "left", h[nrl].right)
        D4(h, nr, nrl) == fixHeight(Set(fixHeight(h, nr), nrl, "right", nr), nrl)
        D5(h, nr, nrl) == Set(h, nrl, "max", h[nr].max)
        Double(q, nr) ==
            IF q.t.panic THEN Panicked(q.t)
            ELSE [t |-> Rotated(q.t, D5(D4(D3(D2(D1(q.t.heap, q.r), q.r), nr, q.r),
                                           nr, q.r), nr, q.r), "insert 2RL"),
                  r |-> q.r]
        Rotate(p, h, nr) ==
            IF p.t.panic THEN Panicked(p.t)
            ELSE IF getheight(h, h[nr].right) >= getheight(h, h[nr].left)
            THEN [t |-> Rotated(p.t, S3(S2(S1(h, nr), nr), nr), "insert 1RL"), r |-> nr]
            ELSE Double(peelFork(p.t, h[nr].left), nr)
        Peeled(p) == Rotate(p, p.t.heap, p.r)
    IN  Peeled(peelFork(t, t.heap[n].right))

\* insert, n heavy on the left by two
insertRotateRight(t, n, key) ==
    LET \* single rotation from left to right: nl comes over n
        S1(h, nl) == fixHeight(Set(h, n, "left", h[nl].right), n)
        S2(h, nl) == fixHeight(Set(h, nl, "right", n), nl)
        S3(h, nl) == Set(h, nl, "max", h[n].max)
        S4(h, nl) == IF compare(key, h[nl].max) = 1 THEN Set(h, nl, "max", key) ELSE h
        \* double rotation from left to right: nlr comes over nl and n
        D1(h, nlr) == fixHeight(Set(h, n, "left", h[nlr].right), n)
        D2(h, nlr) == Set(h, nlr, "right", n)
        D3(h, nl, nlr) == Set(Set(h, nlr, "max", h[n].max), nl, "right", h[nlr].left)
        D4(h, nl, nlr) == Set(fixHeight(h, nl), nl, "max", getmax(h, h[nlr].left))
        D5(h, nl, nlr) == fixHeight(Set(h, nlr, "left", nl), nlr)
        Double(q, nl) ==
            IF q.t.panic THEN Panicked(q.t)
            ELSE [t |-> Rotated(q.t, D5(D4(D3(D2(D1(q.t.heap, q.r), q.r), nl, q.r),
                                           nl, q.r), nl, q.r), "insert 2LR"),
                  r |-> q.r]
        Rotate(p, h, nl) ==
            IF p.t.panic THEN Panicked(p.t)
            ELSE IF getheight(h, h[nl].left) >= getheight(h, h[nl].right)
            THEN [t |-> Rotated(p.t, S4(S3(S2(S1(h, nl), nl), nl), nl), "insert 1LR"),
                  r |-> nl]
            ELSE Double(peelFork(p.t, h[nl].right), nl)
        Peeled(p) == Rotate(p, p.t.heap, p.r)
    IN  Peeled(peelFork(t, t.heap[n].left))

\* the heights and rotations that close the Fork case of insert
insertBalance(t, n, key) ==
    LET lHeight == getheight(t.heap, t.heap[n].left)
        rHeight == getheight(t.heap, t.heap[n].right)
        Balance(t1) ==
            IF rHeight > lHeight
            THEN (IF rHeight - lHeight > 1 THEN insertRotateLeft(t1, n)
                  ELSE [t |-> t1, r |-> n])
            ELSE IF lHeight - rHeight > 1 THEN insertRotateRight(t1, n, key)
            ELSE [t |-> t1, r |-> n]
    IN  Balance([t EXCEPT !.heap = fixHeight(@, n)])

\* the Leaf case of insert
\* a faulty insertLeaf: the new leaf always goes to the right of the old one
insertLeafRight(t, n, key, value) ==
    [t |-> [t EXCEPT !.heap = New(New(@, Leaf3(key, value, Len(value))),
                                  Fork3(key, 2, n, Len(t.heap) + 1))],
     r |-> Len(t.heap) + 2]

insertLeaf(t, n, key, value) ==
    LET c == compare(key, t.heap[n].key)
        new == Len(t.heap) + 1
        leaf == Leaf3(key, value, Len(value))
        Valued(t2) == [t2 EXCEPT !.heap[n].valueId = 0, !.heap[n].valueLen = Len(value)]
        Overwrite(t1) ==
            IF t1.panic THEN Panicked(t1)
            ELSE [t |-> Valued(freeValueId([t1 EXCEPT !.heap[n].value = value],
                                           t1.heap[n].valueId)),
                  r |-> n]
    IN  IF c = 0
        THEN Overwrite(IF t.heap[n].arrow # 0
                       THEN moveArrowOverLeaf(t, t.heap[n].arrow, n) ELSE t)
        ELSE IF c = -1
        THEN [t |-> [t EXCEPT !.heap = New(New(@, leaf), Fork3(t.heap[n].key, 2, new, n))],
              r |-> new + 1]
        ELSE [t |-> [t EXCEPT !.heap = New(New(@, leaf), Fork3(key, 2, n, new))],
              r |-> new + 1]

\* a faulty insert: the subtree is left as it is
insertNothing(t, current, key, value) == [t |-> t, r |-> current]

\* insert: [t, r], r the root of the subtree after the insertion
RECURSIVE insert(_, _, _, _)
insert(t, current, key, value) ==
    LET n == current
        c == compare(key, getmax(t.heap, t.heap[n].left))
        Peeled(p) == IF p.t.panic THEN Panicked(p.t) ELSE insert(p.t, p.r, key, value)
        Hung(h, r) == IF c <= 0 THEN Set(h, n, "left", r)
                      ELSE Set(Set(h, n, "right", r), n, "max", getmax(h, r))
        Inserted(sub) ==
            IF sub.t.panic THEN Panicked(sub.t)
            ELSE insertBalance([sub.t EXCEPT !.heap = Hung(@, sub.r)], n, key)
        Under(t1) ==
            Inserted(insert(t1, IF c <= 0 THEN t1.heap[n].left ELSE t1.heap[n].right,
                            key, value))
    IN  IF t.panic THEN Panicked(t)
        ELSE IF current = 0
        THEN [t |-> [t EXCEPT !.heap = New(@, Leaf3(key, value, Len(value)))],
              r |-> Len(t.heap) + 1]
        ELSE IF t.heap[current].t = "A" THEN Peeled(Peel(t, current))
        ELSE IF t.heap[current].t = "L" THEN insertLeaf(t, current, key, value)
        ELSE Under(unarrowFork(t, n))

\* a faulty Insert: no scan for the key with an equal value
InsertNoScan(t, key, value) ==
    LET Rooted(i) ==
            IF i.t.panic THEN [t |-> [t EXCEPT !.panic = TRUE], ret |-> FALSE]
            ELSE [t |-> [i.t EXCEPT !.root = i.r], ret |-> TRUE]
    IN  Rooted(insert(t, t.root, key, value))

\* Insert: [t, ret]; the scan that opens it reads pages without peeling
Insert(t, key, value) ==
    LET Rooted(i, hit) ==
            IF i.t.panic THEN [t |-> [t EXCEPT !.panic = TRUE], ret |-> FALSE]
            ELSE [t |-> [i.t EXCEPT !.root = i.r], ret |-> ~hit]
        Compared(v, hit) ==
            IF v.err THEN [t |-> [t EXCEPT !.panic = TRUE], ret |-> FALSE]
            ELSE IF hit /\ v.val = value THEN [t |-> t, ret |-> FALSE]
            ELSE Rooted(insert(t, t.root, key, value), hit)
        Scanned(d) ==
            IF d.panic THEN [t |-> [t EXCEPT !.panic = TRUE], ret |-> FALSE]
            ELSE Compared(IF d.leaf # 0 /\ d.h[d.leaf].key = key
                          THEN nvalue(t, d.h[d.leaf]) ELSE [val |-> NilVal, err |-> FALSE],
                          d.leaf # 0 /\ d.h[d.leaf].key = key)
    IN  Scanned(Descend(t, t.heap, t.root, key, FALSE))

\* ------------------------------------------------------------- Delete
\* a faulty rotation of delete: the fork is left as it is
deleteNoRotate(t, n) == [t |-> t, r |-> n]

\* delete, n heavy on the right by two
deleteRotateLeft(t, n) ==
    LET \* single rotation from right to left: nr comes over n
        S1(h, nr) == fixHeight(Set(h, n, "right", h[nr].left), n)
        S2(h, nr) == Set(Set(h, n, "max", getmax(h, h[nr].left)), nr, "left", n)
        S3(h, nr) == Set(h, nr, "height",
                         1 + maxu32(getheight(h, h[nr].left), getheight(h, h[n].right)))
        \* double rotation from right to left: nrl comes over n and nr
        D1(h, nrl) == fixHeight(Set(h, n, "right", h[nrl].left), n)
        D2(h, nrl) == Set(h, n, "max", getmax(h, h[nrl].left))
        D3(h, nr, nrl) == Set(Set(h, nrl, "left", n), nr, "left", h[nrl].right)
        D4(h, nr, nrl) == fixHeight(Set(fixHeight(h, nr), nrl, "right", nr), nrl)
        D5(h, nr, nrl) == Set(h, nrl, "max", h[nr].max)
        Double(q, nr) ==
            IF q.t.panic THEN Panicked(q.t)
            ELSE [t |-> Rotated(q.t, D5(D4(D3(D2(D1(q.t.heap, q.r), q.r), nr, q.r),
                                           nr, q.r), nr, q.r), "delete 2RL"),
                  r |-> q.r]
        Rotate(p, h, nr) ==
            IF p.t.panic THEN Panicked(p.t)
            ELSE IF getheight(h, h[nr].right) >= getheight(h, h[nr].left)
            THEN [t |-> Rotated(p.t, S3(S2(S1(h, nr), nr), nr), "delete 1RL"), r |-> nr]
            ELSE Double(peelFork(p.t, h[nr].left), nr)
        Peeled(p) == Rotate(p, p.t.heap, p.r)
    IN  Peeled(peelFork(t, t.heap[n].right))

\* delete, n heavy on the left by two
deleteRotateRight(t, n) ==
    LET \* single rotation from left to right: nl comes over n
        S1(h, nl) == fixHeight(Set(h, n, "left", h[nl].right), n)
        S2(h, nl) == fixHeight(Set(h, nl, "right", n), nl)
        S3(h, nl) == Set(h, nl, "max", h[n].max)
        \* double rotation from left to right: nlr comes over nl and n
        D1(h, nlr) == fixHeight(Set(h, n, "left", h[nlr].right), n)
        D2(h, nlr) == Set(h, nlr, "right", n)
        D3(h, nl, nlr) == Set(Set(h, nlr, "max", h[n].max), nl, "right", h[nlr].left)
        D4(h, nl, nlr) == Set(fixHeight(h, nl), nl, "max", getmax(h, h[nlr].left))
        D5(h, nl, nlr) == fixHeight(Set(h, nlr, "left", nl), nlr)
        Double(q, nl) ==
            IF q.t.panic THEN Panicked(q.t)
            ELSE [t |-> Rotated(q.t, D5(D4(D3(D2(D1(q.t.heap, q.r), q.r), nl, q.r),
                                           nl, q.r), nl, q.r), "delete 2LR"),
                  r |-> q.r]
        Rotate(p, h, nl) ==
            IF p.t.panic THEN Panicked(p.t)
            ELSE IF getheight(h, h[nl].left) >= getheight(h, h[nl].right)
            THEN [t |-> Rotated(p.t, S3(S2(S1(h, nl), nl), nl), "delete 1LR"), r |-> nl]
            ELSE Double(peelFork(p.t, h[nl].right), nl)
        Peeled(p) == Rotate(p, p.t.heap, p.r)
    IN  Peeled(peelFork(t, t.heap[n].left))

\* the heights and rotations that close the Fork case of delete
deleteBalance(t, n) ==
    LET lHeight == getheight(t.heap, t.heap[n].left)
        rHeight == getheight(t.heap, t.heap[n].right)
        Balance(t1) ==
            IF rHeight > lHeight
            THEN (IF rHeight - lHeight > 1 THEN deleteRotateLeft(t1, n)
                  ELSE [t |-> t1, r |-> n])
            ELSE IF lHeight - rHeight > 1 THEN deleteRotateRight(t1, n)
            ELSE [t |-> t1, r |-> n]
    IN  Balance([t EXCEPT !.heap = fixHeight(@, n)])

\* a faulty delete: the value id of the leaf is freed with an arrow on it
freeWithArrow(t, l) == freeValueId(t, t.heap[l].valueId)

\* "if l.arrow == nil { t.freeValueId(l.valueId) }"
freeUnlessArrow(t, l) ==
    IF t.heap[l].arrow = 0 THEN freeValueId(t, t.heap[l].valueId) ELSE t

\* the special case of delete: both children of the fork n are leaves
deleteLeafLeaf(t, n, c) ==
    LET Right(pr, nl) ==
            IF pr.t.panic THEN Panicked(pr.t)
            ELSE IF pr.t.heap[nl].t # "L" \/ pr.t.heap[pr.r].t # "L" THEN Panicked(pr.t)
            ELSE IF c <= 0 THEN [t |-> freeUnlessArrow(pr.t, nl), r |-> pr.r]
            ELSE [t |-> freeUnlessArrow(pr.t, pr.r), r |-> nl]
        Left(pl) ==
            IF pl.t.panic THEN Panicked(pl.t)
            ELSE Right(Peel(pl.t, t.heap[n].right), pl.r)
    IN  Left(Peel(t, t.heap[n].left))

\* a faulty delete: the subtree is left as it is
deleteNothing(t, current, key) == [t |-> t, r |-> current]

\* delete: [t, r], r = 0 when the subtree is gone
RECURSIVE delete(_, _, _)
delete(t, current, key) ==
    LET n == current
        c == compare(key, getmax(t.heap, t.heap[n].left))
        Peeled(p) == IF p.t.panic THEN Panicked(p.t) ELSE delete(p.t, p.r, key)
        Hung(h, r) == IF c <= 0 THEN Set(h, n, "left", r) ELSE Set(h, n, "right", r)
        Maxed(h, r) == IF c <= 0 THEN h ELSE Set(h, n, "max", getmax(h, r))
        Gone(h) == IF c <= 0 THEN h[n].right ELSE h[n].left
        Deleted(sub) ==
            IF sub.t.panic THEN Panicked(sub.t)
            ELSE IF sub.r = 0
            THEN [t |-> [sub.t EXCEPT !.heap = Hung(@, sub.r)], r |-> Gone(sub.t.heap)]
            ELSE deleteBalance([sub.t EXCEPT !.heap = Maxed(Hung(@, sub.r), sub.r)], n)
        Under(t1, il, ir) ==
            IF il.panic \/ (il.leaf /\ ir.panic) THEN Panicked(t1)
            ELSE IF il.leaf /\ ir.leaf THEN deleteLeafLeaf(t1, n, c)
            ELSE Deleted(delete(t1, IF c <= 0 THEN t1.heap[n].left ELSE t1.heap[n].right,
                                key))
        Fork(t1) == Under(t1, IsLeaf(t1, t1.heap, t1.heap[n].left),
                          IsLeaf(t1, t1.heap, t1.heap[n].right))
    IN  IF t.panic \/ current = 0 THEN Panicked(t)
        ELSE IF t.heap[current].t = "A" THEN Peeled(Peel(t, current))
        ELSE IF t.heap[current].t = "L" THEN [t |-> freeUnlessArrow(t, current), r |-> 0]
        ELSE Fork(unarrowFork(t, n))

\* a faulty Delete: no scan for the key before delete
DeleteNoScan(t, key) ==
    LET Rooted(x) ==
            IF x.t.panic THEN [t |-> [t EXCEPT !.panic = TRUE], ret |-> FALSE]
            ELSE [t |-> [x.t EXCEPT !.root = x.r], ret |-> TRUE]
    IN  Rooted(delete(t, t.root, key))

\* Delete: [t, ret]
Delete(t, key) ==
    LET Rooted(x) ==
            IF x.t.panic THEN [t |-> [t EXCEPT !.panic = TRUE], ret |-> FALSE]
            ELSE [t |-> [x.t EXCEPT !.root = x.r], ret |-> TRUE]
        Scanned(d) ==
            IF d.panic THEN [t |-> [t EXCEPT !.panic = TRUE], ret |-> FALSE]
            ELSE IF ~(d.leaf # 0 /\ d.h[d.leaf].key = key) THEN [t |-> t, ret |-> FALSE]
            ELSE Rooted(delete(t, t.root, key))
    IN  Scanned(Descend(t, t.heap, t.root, key, TRUE))

\* ------------------------------------------------------------- Commit
pageSize(keyCount, pageCount, keyBodySize, valBodySize, structBits, prefix) ==
    LET nodeCount == keyCount + pageCount
        prefixLen == Len(prefix)
    IN  4 + 4 * ((nodeCount + 31) \div 32) + 4 + 4 * nodeCount + 4
        + (12 + hashLength) * pageCount + 4 * keyCount
        + 4 * ((structBits + 31) \div 32) + prefixLen
        + keyBodySize - nodeCount * prefixLen + valBodySize

\* PinnedPageID
NoPin == [id |-> 0, pinned |-> FALSE]

\* serialisePass2 over s = [t, nodes, sbits, valBytes]: the entries and the
\* structure bits written so far and the bytes of the value body used
RECURSIVE serialisePass2(_, _, _, _, _)
serialisePass2(s, r, pageId, prefixLen, subtreePinned) ==
    LET n == s.t.heap[r]
        pinned == subtreePinned \/ n.pinnedPageId = pageId \/ n.arrow # 0
        \* "if n.arrow != nil { n.arrow.pageId = pageId }"
        Aimed(h) == IF n.arrow # 0 THEN Set(h, n.arrow, "pageId", pageId) ELSE h
        Leaf(t1, vid) ==
            [t |-> [t1 EXCEPT !.heap = Aimed(Set(@, r, "valueId", vid))],
             nodes |-> Append(s.nodes, LeafEntry(n, vid, prefixLen)),
             sbits |-> Append(s.sbits, IF pinned THEN 0 ELSE 1),
             valBytes |-> s.valBytes + (IF n.valueLen > InlineValueMax
                                        THEN 8 + HashLength ELSE n.valueLen)]
        Right(s1) ==
            serialisePass2([s1 EXCEPT !.t.heap = Aimed(@), !.sbits = Append(@, 0)],
                           n.right, pageId, prefixLen, pinned)
        Closed(s2) == [s2 EXCEPT !.sbits = Append(@, 1)]
    IN  IF n.t = "L"
        THEN IF n.valueLen > InlineValueMax /\ n.valueId = 0
             THEN Leaf(addValue(s.t, nextValueId(s.t), n.value), nextValueId(s.t))
             ELSE Leaf(s.t, n.valueId)
        ELSE IF n.t = "F"
        THEN Closed(Right(serialisePass2(s, n.left, pageId, prefixLen, pinned)))
        ELSE [s EXCEPT !.nodes = Append(@, ArrowEntry(n, prefixLen)),
                       !.sbits = Append(@, IF subtreePinned THEN 0 ELSE 1)]

\* is the node n in the tree under r
RECURSIVE InTree(_, _, _)
InTree(h, r, n) ==
    IF r = 0 THEN FALSE
    ELSE IF r = n THEN TRUE
    ELSE h[r].t = "F" /\ (InTree(h, h[r].left, n) \/ InTree(h, h[r].right, n))

\* the write of a page, as events records it: the tree the page was
\* serialised from ("prev" for the tree under prevRoot) and its id
PageEvent(t, r, id) ==
    [kind |-> "page", tree |-> IF InTree(t.heap, t.prevRoot, r) THEN "prev" ELSE "cur",
     version |-> 0, id |-> id]

\* the write of an entry of the version file
VerEvent(version, id) == [kind |-> "ver", tree |-> "", version |-> version, id |-> id]

\* the subtree under r as a page holds it: the shape, each leaf's key and its
\* value (or, past InlineValueMax, its value id), each arrow's page id, height
\* and max key, each fork's height and max key
RECURSIVE Subtree(_, _)
Subtree(h, r) ==
    IF r = 0 THEN <<>>
    ELSE IF h[r].t = "L"
    THEN [t |-> "L", key |-> h[r].key, valueLen |-> h[r].valueLen,
          value |-> IF h[r].valueLen > InlineValueMax THEN NilVal ELSE h[r].value,
          valueId |-> IF h[r].valueLen > InlineValueMax THEN h[r].valueId ELSE 0]
    ELSE IF h[r].t = "A"
    THEN [t |-> "A", pageId |-> h[r].pageId, height |-> h[r].height, max |-> h[r].max]
    ELSE [t |-> "F", height |-> h[r].height, max |-> h[r].max,
          left |-> Subtree(h, h[r].left), right |-> Subtree(h, h[r].right)]

\* what commitPage serialised into the page id, and the page it stored
TreeEvent(id, wrote, page) ==
    [kind |-> "tree", tree |-> "", version |-> 0, id |-> id, wrote |-> wrote, page |-> page]

\* commitPage of the subtree r with the counts p of serialisePass1: [t, id]
commitPage(t, r, p) ==
    LET Page(s) ==
            [prefix |-> p.prefix, nodes |-> s.nodes, sbits |-> s.sbits,
             size |-> pageSize(p.keyCount, p.pageCount, p.keyBodySize, p.valBodySize,
                               p.structBits, p.prefix)]
        Stored(s, id) ==
            IF t.files
            THEN [s.t EXCEPT !.pageFile = [q \in DOMAIN @ \cup {id} |->
                                              IF q = id THEN Page(s) ELSE @[q]]]
            ELSE [s.t EXCEPT !.pageMap = [q \in DOMAIN @ \cup {id} |->
                                             IF q = id THEN Page(s) ELSE @[q]]]
        Logged(e, s, id) ==
            [e EXCEPT !.written = Append(@, id),
                      !.events = @ \o <<PageEvent(t, r, id),
                                        TreeEvent(id, Subtree(s.t.heap, r), Page(s))>>]
        Written(s, id) ==
            IF s.valBytes # p.valBodySize \/ Len(s.nodes) # p.keyCount + p.pageCount
               \/ Len(s.sbits) # p.structBits
            THEN [t |-> [t EXCEPT !.panic = TRUE], id |-> 0]
            ELSE [t |-> Logged(Stored(s, id), s, id), id |-> id]
        Under(idr) ==
            Written(serialisePass2([t |-> idr.t, nodes |-> <<>>, sbits |-> <<>>,
                                    valBytes |-> 0],
                                   r, idr.id, Len(p.prefix), FALSE),
                    idr.id)
    IN  IF t.panic THEN [t |-> t, id |-> 0]
        ELSE Under(IF p.pin.pinned THEN [t |-> t, id |-> p.pin.id] ELSE nextPageId(t))

\* the pin of a leaf or a fork in serialisePass1: [pin, mp]
nodePin(n, mp) ==
    IF n.pinnedPageId # 0 THEN [pin |-> [id |-> n.pinnedPageId, pinned |-> TRUE], mp |-> mp]
    ELSE IF n.arrow # 0 THEN [pin |-> [id |-> mp + 1, pinned |-> FALSE], mp |-> mp + 1]
    ELSE [pin |-> NoPin, mp |-> mp]

\* mergableL / mergableR: may the fork share a page with one child
mergable2(pinC, pinF) ==
    pinC.id = 0 \/ pinF.id = 0 \/ (pinC.id = pinF.id /\ pinC.pinned = pinF.pinned)

mergePin2(pinC, pinF) ==
    IF pinC.id = 0 THEN pinF ELSE IF pinF.id = 0 THEN pinC ELSE pinF

\* a faulty mergable3: any three pins may share a page
mergable3Any(pinL, pinR, pinF) == TRUE

\* mergable3: may the fork share a page with both children
mergable3(pinL, pinR, pinF) ==
    \/ pinL.id = 0 /\ pinR.id = 0
    \/ pinL.id = 0 /\ pinF.id = 0
    \/ pinR.id = 0 /\ pinF.id = 0
    \/ pinL.id = pinR.id /\ pinL.pinned = pinR.pinned
       /\ pinR.id = pinF.id /\ pinR.pinned = pinF.pinned

mergePin3(pinL, pinR, pinF) ==
    IF pinL.id = 0 /\ pinR.id = 0 THEN pinF
    ELSE IF pinL.id = 0 /\ pinF.id = 0 THEN pinR
    ELSE IF pinR.id = 0 /\ pinF.id = 0 THEN pinL
    ELSE pinF

\* the counts serialisePass1 returns, with the engine and the page id counter
Counts(t, mp, prefix, keyCount, pageCount, keyBodySize, valBodySize, structBits, pin) ==
    [t |-> t, mp |-> mp, prefix |-> prefix, keyCount |-> keyCount, pageCount |-> pageCount,
     keyBodySize |-> keyBodySize, valBodySize |-> valBodySize, structBits |-> structBits,
     pin |-> pin]

sizeOf(p) ==
    pageSize(p.keyCount, p.pageCount, p.keyBodySize, p.valBodySize, p.structBits, p.prefix)

\* "if la, ok := f.left.(*Arrow3); ok ... else commitPage": the child c of
\* the fork f (side "left" or "right") becomes an arrow; [t, a]
childToArrow(t, f, side, p) ==
    LET c == t.heap[f][side]
        Hung(h) == Set(h, f, side, Len(h))
        Arrow(cp) ==
            IF cp.t.panic THEN [t |-> cp.t, a |-> 0]
            ELSE [t |-> [cp.t EXCEPT !.heap = Hung(New(@, Arrow3(cp.id, getheight(@, c),
                                                                 getmax(@, c), 0, 0)))],
                  a |-> Len(cp.t.heap) + 1]
    IN  IF t.heap[c].t = "A" THEN [t |-> t, a |-> c]
        ELSE Arrow(commitPage(t, c, p))

\* a faulty split: the smaller child goes to a page of its own first
splitForkSmaller(t, f, pinF, mp, A, B, sideA, sideB) ==
    LET Both(cb, aMax, bMax) ==
            IF cb.t.panic THEN Counts(cb.t, mp, NilKey, 0, 0, 0, 0, 0, NoPin)
            ELSE Counts(cb.t, mp, commonPrefix(bMax, aMax), 0, 2, Len(aMax) + Len(bMax),
                        0, 4, pinF)
        Other(cb, aMax) == Both(cb, aMax, cb.t.heap[cb.a].max)
        Fit(ca, aMax, FB) ==
            IF mergable2(A.pin, pinF) /\ sizeOf(FB) < PageSize THEN FB
            ELSE Other(childToArrow(ca.t, f, sideA, A), aMax)
        One(ca, aMax) ==
            Fit(ca, aMax,
                Counts(ca.t, mp, commonPrefix(A.prefix, aMax), A.keyCount, A.pageCount + 1,
                       A.keyBodySize + Len(aMax), A.valBodySize, A.structBits + 3,
                       mergePin2(A.pin, pinF)))
        Bigger(ca) ==
            IF ca.t.panic THEN Counts(ca.t, mp, NilKey, 0, 0, 0, 0, 0, NoPin)
            ELSE One(ca, ca.t.heap[ca.a].max)
    IN  Bigger(childToArrow(t, f, sideB, B))

\* the fork f does not fit a page with both children: the bigger child A (on
\* sideA) goes to a page of its own, and the other child B too unless the
\* fork, B and the arrow to A fit a page
splitFork(t, f, pinF, mp, A, B, sideA, sideB) ==
    LET Both(cb, aMax, bMax) ==
            IF cb.t.panic THEN Counts(cb.t, mp, NilKey, 0, 0, 0, 0, 0, NoPin)
            ELSE Counts(cb.t, mp, commonPrefix(bMax, aMax), 0, 2, Len(aMax) + Len(bMax),
                        0, 4, pinF)
        Other(cb, aMax) == Both(cb, aMax, cb.t.heap[cb.a].max)
        Fit(ca, aMax, FB) ==
            IF mergable2(B.pin, pinF) /\ sizeOf(FB) < PageSize THEN FB
            ELSE Other(childToArrow(ca.t, f, sideB, B), aMax)
        One(ca, aMax) ==
            Fit(ca, aMax,
                Counts(ca.t, mp, commonPrefix(B.prefix, aMax), B.keyCount, B.pageCount + 1,
                       B.keyBodySize + Len(aMax), B.valBodySize, B.structBits + 3,
                       mergePin2(B.pin, pinF)))
        Bigger(ca) ==
            IF ca.t.panic THEN Counts(ca.t, mp, NilKey, 0, 0, 0, 0, 0, NoPin)
            ELSE One(ca, ca.t.heap[ca.a].max)
    IN  Bigger(childToArrow(t, f, sideA, A))

\* what serialisePass1 returns, without the engine and the counter
Returned(p) ==
    [prefix |-> p.prefix, keyCount |-> p.keyCount, pageCount |-> p.pageCount,
     keyBodySize |-> p.keyBodySize, valBodySize |-> p.valBodySize,
     structBits |-> p.structBits, pin |-> p.pin]

\* serialisePass1 of a fork, as events records it: the pin of the fork, what
\* the two children returned, what the fork returns, and what the children
\* were (h0) and are (h1): "L", "F" or "A", with their max keys and, for an
\* arrow, its page id
ForkEvent(h0, h1, f, pinF, L, R, out) ==
    [kind |-> "fork", tree |-> "", version |-> 0, id |-> 0,
     pinF |-> pinF, L |-> Returned(L), R |-> Returned(R), out |-> Returned(out),
     maxL |-> getmax(h0, h0[f].left), maxR |-> getmax(h0, h0[f].right),
     wasL |-> h0[h0[f].left].t, wasR |-> h0[h0[f].right].t,
     isL |-> h1[h1[f].left].t, isR |-> h1[h1[f].right].t,
     idL |-> IF h1[h1[f].left].t = "A" THEN h1[h1[f].left].pageId ELSE 0,
     idR |-> IF h1[h1[f].right].t = "A" THEN h1[h1[f].right].pageId ELSE 0]

\* serialisePass1 of the subtree r; mp is the counter *maxPageId
RECURSIVE serialisePass1(_, _, _)
serialisePass1(t, r, mp) ==
    LET n == t.heap[r]
        Leaf(np) ==
            Counts(t, np.mp, n.key, 1, 0, Len(n.key),
                   IF n.valueLen > InlineValueMax THEN 8 + HashLength ELSE n.valueLen,
                   1, np.pin)
        Split(np, L, R, leftBigger) ==
            splitFork(R.t, r, np.pin, R.mp, IF leftBigger THEN L ELSE R,
                      IF leftBigger THEN R ELSE L,
                      IF leftBigger THEN "left" ELSE "right",
                      IF leftBigger THEN "right" ELSE "left")
        Merged(np, L, R, LFR) ==
            IF mergable3(L.pin, R.pin, np.pin) /\ sizeOf(LFR) < PageSize THEN LFR
            ELSE Split(np, L, R, sizeOf(L) > sizeOf(R))
        Noted(np, L, R, out) ==
            IF out.t.panic THEN out
            ELSE [out EXCEPT !.t.events =
                                Append(@, ForkEvent(R.t.heap, out.t.heap, r, np.pin, L, R, out))]
        Forked(np, L, R, LFR) == Noted(np, L, R, Merged(np, L, R, LFR))
        Right(np, L, R) ==
            IF R.t.panic THEN R
            ELSE Forked(np, L, R,
                        Counts(R.t, R.mp, commonPrefix(L.prefix, R.prefix),
                               L.keyCount + R.keyCount, L.pageCount + R.pageCount,
                               L.keyBodySize + R.keyBodySize, L.valBodySize + R.valBodySize,
                               L.structBits + R.structBits + 2,
                               mergePin3(L.pin, R.pin, np.pin)))
        Left(np, L) ==
            IF L.t.panic THEN L ELSE Right(np, L, serialisePass1(L.t, n.right, L.mp))
        Fork(np) == Left(np, serialisePass1(t, n.left, np.mp))
    IN  IF n.t = "L" THEN Leaf(nodePin(n, mp))
        ELSE IF n.t = "A" THEN Counts(t, mp, n.max, 0, 1, Len(n.max), 0, 1, NoPin)
        ELSE Fork(nodePin(n, mp))

\* binary.BigEndian.PutUint64 and Uint64; the page ids of the model are
\* below 2^32, so the four high bytes are 0
PutUint64(v) == [i \in 1..8 |-> IF i <= 4 THEN 0 ELSE (v \div (256 ^ (8 - i))) % 256]

Uint64(b) == b[5] * 256 ^ 3 + b[6] * 256 ^ 2 + b[7] * 256 + b[8]

\* verFile.WriteAt of the entry of a version: 8 bytes at offset version * 8
WriteVer(file, version, id) == WriteAt(file, PutUint64(id), version * 8)

\* verFile.ReadAt(verdata[:], off): [n, verdata]; a read that meets the end of
\* the file fills the first n bytes of the buffer and leaves the others
ReadVer(file, verdata, off) ==
    LET n == IF off >= Len(file) THEN 0 ELSE Min2(8, Len(file) - off)
    IN  [n |-> n, verdata |-> [i \in 1..8 |-> IF i <= n THEN file[off + i] ELSE verdata[i]]]

\* "Read versions": the loop of UseFiles over st = [verdata, lastPageID,
\* versions, currentVersion], which runs while ReadAt returns n > 0
RECURSIVE readVersions(_, _)
readVersions(file, st) ==
    LET Entry(r) ==
            IF r.n = 0 THEN st
            ELSE readVersions(file,
                    [verdata |-> r.verdata, lastPageID |-> Uint64(r.verdata),
                     versions |-> [v \in DOMAIN st.versions \cup {st.currentVersion} |->
                                      IF v = st.currentVersion THEN Uint64(r.verdata)
                                      ELSE st.versions[v]],
                     currentVersion |-> st.currentVersion + 1])
    IN  Entry(ReadVer(file, st.verdata, st.currentVersion * 8))

\* "for pageId := range t.pagesToRecycle { t.freePageId(pageId) }" in the
\* order ord of the iteration over the map
RECURSIVE freeAll(_, _, _)
freeAll(t, ord, i) ==
    IF i > Len(ord) THEN t ELSE freeAll(freePageId(t, ord[i]), ord, i + 1)

\* a faulty Commit: the tree under prevRoot is serialised first
commitTreesPrevFirst(t) ==
    LET Failed == [t |-> [t EXCEPT !.panic = TRUE], currentId |-> 0]
        Root(c1) ==
            IF c1.t.panic THEN Failed ELSE [t |-> c1.t, currentId |-> c1.id]
        Pass1(p1) == IF p1.t.panic THEN Failed ELSE Root(commitPage(p1.t, t.root, p1))
        Current(t1) == Pass1(serialisePass1(t1, t.root, 0))
        Versioned(c2) ==
            IF c2.t.panic THEN Failed
            ELSE Current([c2.t EXCEPT
                             !.versions = [v \in DOMAIN @ \cup {t.currentVersion} |->
                                              IF v = t.currentVersion THEN c2.id ELSE @[v]],
                             !.verFile = IF t.files THEN WriteVer(@, t.currentVersion, c2.id)
                                         ELSE @,
                             !.events = IF t.files
                                        THEN Append(@, VerEvent(t.currentVersion, c2.id))
                                        ELSE @])
        Prev(p2) ==
            IF p2.t.panic THEN Failed ELSE Versioned(commitPage(p2.t, t.prevRoot, p2))
    IN  IF t.prevRoot = 0 THEN Current(t)
        ELSE Prev(serialisePass1(t, t.prevRoot, t.maxPageId))

\* Commit up to the pages of the two trees: [t, currentId]
commitTrees(t) ==
    LET Failed == [t |-> [t EXCEPT !.panic = TRUE], currentId |-> 0]
        Versioned(c2, currentId) ==
            IF c2.t.panic THEN Failed
            ELSE [t |-> [c2.t EXCEPT
                            !.versions = [v \in DOMAIN @ \cup {t.currentVersion} |->
                                             IF v = t.currentVersion THEN c2.id ELSE @[v]],
                            !.verFile = IF t.files THEN WriteVer(@, t.currentVersion, c2.id)
                                        ELSE @,
                            !.events = IF t.files
                                       THEN Append(@, VerEvent(t.currentVersion, c2.id))
                                       ELSE @],
                  currentId |-> currentId]
        Prev(p2, currentId) ==
            IF p2.t.panic THEN Failed
            ELSE Versioned(commitPage(p2.t, t.prevRoot, p2), currentId)
        Root(c1) ==
            IF c1.t.panic THEN Failed
            ELSE IF t.prevRoot = 0 THEN [t |-> c1.t, currentId |-> c1.id]
            ELSE Prev(serialisePass1(c1.t, t.prevRoot, c1.t.maxPageId), c1.id)
        Pass1(p1) == IF p1.t.panic THEN Failed ELSE Root(commitPage(p1.t, t.root, p1))
    IN  Pass1(serialisePass1(t, t.root, 0))

\* a faulty commitNilRoot: the nil tree is recorded as a new version
commitNilRootVersion(t) ==
    [t |-> [t EXCEPT !.currentVersion = @ + 1,
                     !.versions = [v \in DOMAIN @ \cup {t.currentVersion + 1} |->
                                      IF v = t.currentVersion + 1 THEN 0 ELSE @[v]]],
     ret |-> 0]

\* Commit on a nil root: [t, ret]; it returns 0 at once
commitNilRoot(t) == [t |-> t, ret |-> 0]

\* a faulty Commit: the arrow under prevRoot does not carry the id of the page
CommitBlankPrev(t, ord) ==
    LET cv == t.currentVersion + 1
        Arrows(h, currentId, height, max) ==
            New(New(h, Arrow3(0, height, max, 0, 0)),
                Arrow3(currentId, height, max, Len(h) + 1, 0))
        Next(t1, currentId) ==
            [t1 EXCEPT !.pagesToRecycle = {},
                       !.currentVersion = cv,
                       !.versions = [v \in DOMAIN @ \cup {cv} |->
                                        IF v = cv THEN currentId ELSE @[v]],
                       !.verFile = IF t.files THEN WriteVer(@, cv, currentId) ELSE @,
                       !.events = IF t.files THEN Append(@, VerEvent(cv, currentId)) ELSE @,
                       !.heap = Arrows(@, currentId, getheight(@, t.root), getmax(@, t.root)),
                       !.root = Len(t1.heap) + 2, !.prevRoot = Len(t1.heap) + 1]
        Committed(c) ==
            IF c.t.panic THEN [t |-> c.t, ret |-> 0]
            ELSE [t |-> Next(freeAll(c.t, ord, 1), c.currentId), ret |-> Len(c.t.written)]
    IN  IF t.root = 0 THEN commitNilRoot(t)
        ELSE Committed(commitTrees(t))

\* Commit: [t, ret]; ord is the order in which the recycled pages are freed
Commit(t, ord) ==
    LET cv == t.currentVersion + 1
        Arrows(h, currentId, height, max) ==
            New(New(h, Arrow3(currentId, height, max, 0, 0)),
                Arrow3(currentId, height, max, Len(h) + 1, 0))
        Next(t1, currentId) ==
            [t1 EXCEPT !.pagesToRecycle = {},
                       !.currentVersion = cv,
                       !.versions = [v \in DOMAIN @ \cup {cv} |->
                                        IF v = cv THEN currentId ELSE @[v]],
                       !.verFile = IF t.files THEN WriteVer(@, cv, currentId) ELSE @,
                       !.events = IF t.files THEN Append(@, VerEvent(cv, currentId)) ELSE @,
                       !.heap = Arrows(@, currentId, getheight(@, t.root), getmax(@, t.root)),
                       !.root = Len(t1.heap) + 2, !.prevRoot = Len(t1.heap) + 1]
        Committed(c) ==
            IF c.t.panic THEN [t |-> c.t, ret |-> 0]
            ELSE [t |-> Next(freeAll(c.t, ord, 1), c.currentId), ret |-> Len(c.t.written)]
    IN  IF t.root = 0 THEN commitNilRoot(t)
        ELSE Committed(commitTrees(t))

\* ---------------------------------------------------------- UseFiles
\* a fresh engine, as NewAvl3 builds it (and SetHashLength scales it)
NewAvl3 ==
    [heap |-> <<>>, root |-> 0, prevRoot |-> 0, pagesToRecycle |-> {},
     pageMap |-> <<>>, freelist |-> <<>>, maxPageId |-> 0,
     valueMap |-> <<>>, maxValueId |-> 0, versions |-> <<>>, currentVersion |-> 0,
     files |-> FALSE, pageFile |-> <<>>, valueFile |-> <<>>, verFile |-> <<>>,
     written |-> <<>>, allocs |-> <<>>, rotations |-> <<>>, events |-> <<>>,
     panic |-> FALSE]

\* UseFiles(..., read = false) on the engine t over the three files
UseFiles(t, pageFile, valueFile, verFile) ==
    LET Arrows(h, lastPageID, height, max) ==
            New(New(h, Arrow3(0, height, max, 0, 0)),
                Arrow3(lastPageID, height, max, Len(h) + 1, 0))
        Rooted(t1, lastPageID, d) ==
            IF d.err \/ d.point = 0 THEN [t1 EXCEPT !.panic = TRUE]
            ELSE [t1 EXCEPT !.maxPageId = lastPageID,
                            !.heap = Arrows(@, lastPageID, getheight(d.h, d.point),
                                            getmax(d.h, d.point)),
                            !.root = Len(t1.heap) + 2, !.prevRoot = Len(t1.heap) + 1]
        Read(t1, lastPageID) ==
            Rooted(t1, lastPageID, deserialisePage(t1, t1.heap, lastPageID, NilKey, 0))
        Opened(t1, st) ==
            IF st.currentVersion = 0 THEN t1
            ELSE Read([t1 EXCEPT !.versions = st.versions,
                                 !.currentVersion = st.currentVersion],
                      st.lastPageID)
    IN  Opened([t EXCEPT !.files = TRUE, !.pageFile = pageFile, !.valueFile = valueFile,
                         !.verFile = verFile],
               readVersions(verFile, [verdata |-> [i \in 1..8 |-> 0], lastPageID |-> 0,
                                      versions |-> t.versions,
                                      currentVersion |-> t.currentVersion]))

\* ------------------------------------------------------- the node heap
\* Nodes no pointer reaches are garbage; the reachable ones are numbered in
\* the order of a walk from root and then from prevRoot, so that two heaps
\* with the same pointer structure are the same state.
InSeq(x, seq) == \E i \in 1..Len(seq) : seq[i] = x

RECURSIVE Visit(_, _, _)
Visit(h, order, n) ==
    IF n = 0 \/ InSeq(n, order) THEN order
    ELSE LET o1 == Append(order, n)
         IN  IF h[n].t = "L" THEN Visit(h, o1, h[n].arrow)
             ELSE IF h[n].t = "F"
             THEN Visit(h, Visit(h, Visit(h, o1, h[n].left), h[n].right), h[n].arrow)
             ELSE Visit(h, Visit(h, o1, h[n].arrow), h[n].parent)

Collect(t) ==
    LET order == Visit(t.heap, Visit(t.heap, <<>>, t.root), t.prevRoot)
        idx(n) == IF n = 0 THEN 0 ELSE CHOOSE i \in 1..Len(order) : order[i] = n
        move(rec) ==
            IF rec.t = "L" THEN [rec EXCEPT !.arrow = idx(@)]
            ELSE IF rec.t = "F"
            THEN [rec EXCEPT !.arrow = idx(@), !.left = idx(@), !.right = idx(@)]
            ELSE [rec EXCEPT !.arrow = idx(@), !.parent = idx(@)]
    IN  [t EXCEPT !.heap = [i \in 1..Len(order) |-> move(t.heap[order[i]])],
                  !.root = idx(t.root), !.prevRoot = idx(t.prevRoot)]

\* ------------------------------------------------ the reference map
\* a map is a set of <<key, value>> pairs with one pair per key
Put(m, key, value) == {p \in m : p[1] # key} \cup {<<key, value>>}

Remove(m, key) == {p \in m : p[1] # key}

Has(m, key) == \E p \in m : p[1] = key

\* what Get has to return for key under the map m
Expect(m, key) ==
    IF Has(m, key)
    THEN [val |-> (CHOOSE p \in m : p[1] = key)[2], found |-> TRUE, panic |-> FALSE]
    ELSE [val |-> NilVal, found |-> FALSE, panic |-> FALSE]

\* ------------------------------------------------------ state machine
KeysD == {<<k>> : k \in 1..NumKeysD}
AllKeys == Keys \cup KeysD

VARIABLES
    t,        \* the engine (Avl3)
    conf,     \* the inputs of the calls: keys, values, number of calls
    M,        \* the reference map: every Insert and Delete applied to it
    hist,     \* the reference map at each Commit that made a version
    last,     \* the last call: its name, arguments and results
    cm,       \* the reference map at the last call of Commit
    seen,     \* what every Get returned just before the engine was closed
    idle,     \* a Commit has run on a root no call had peeled (an empty batch)
    commits,  \* number of calls of Commit
    ops       \* number of calls

vars == <<t, conf, M, hist, last, cm, seen, idle, commits, ops>>

\* a call and what it returned: ret is the boolean of Insert, Delete and Get,
\* value the value Get returned, n the count of Commit; dirty tells a Commit
\* that found the root peeled (a batch that changed the tree)
Call(op, key, value, ret, n, dirty) ==
    [op |-> op, key |-> key, value |-> value, ret |-> ret, n |-> n, dirty |-> dirty]

Gets(e) == [k \in AllKeys |-> Get(e, k)]

\* the logs of the engine cover one call
Called(e) ==
    [e EXCEPT !.written = <<>>, !.allocs = <<>>, !.rotations = <<>>, !.events = <<>>]

Start(e, c, op) ==
    /\ t = e
    /\ conf = c
    /\ M = {}
    /\ hist = <<>>
    /\ last = Call(op, NilKey, NilVal, FALSE, 0, FALSE)
    /\ cm = {}
    /\ seen = <<>>
    /\ idle = FALSE
    /\ commits = 0
    /\ ops = 0

\* an engine in memory; three keys, short and long values
Init == Start(NewAvl3, [keys |-> Keys, vals |-> Vals, maxOps |-> MaxOps], "NewAvl3")

\* an engine in memory; enough keys for the rotations of delete, short values
InitDeep == Start(NewAvl3, [keys |-> KeysD, vals |-> {SmallVal}, maxOps |-> MaxOpsD], "NewAvl3")

\* an engine over three empty files
InitFiles ==
    Start(UseFiles(NewAvl3, <<>>, <<>>, <<>>),
          [keys |-> Keys, vals |-> Vals, maxOps |-> MaxOpsF], "UseFiles")

Running == ~t.panic /\ ops < conf.maxOps

DoInsert ==
    /\ Running
    /\ \E key \in conf.keys, value \in conf.vals :
         \E r \in {Insert(Called(t), key, value)} :
            /\ t' = Collect(r.t)
            /\ M' = IF r.t.panic THEN M ELSE Put(M, key, value)
            /\ last' = Call("Insert", key, value, r.ret, 0, FALSE)
    /\ ops' = ops + 1
    /\ UNCHANGED <<conf, hist, cm, seen, idle, commits>>

DoDelete ==
    /\ Running
    /\ \E key \in conf.keys :
         \E r \in {Delete(Called(t), key)} :
            /\ t' = Collect(r.t)
            /\ M' = IF r.t.panic THEN M ELSE Remove(M, key)
            /\ last' = Call("Delete", key, NilVal, r.ret, 0, FALSE)
    /\ ops' = ops + 1
    /\ UNCHANGED <<conf, hist, cm, seen, idle, commits>>

\* Get writes no field of the engine; the nodes it allocated are garbage
DoGet ==
    /\ Running
    /\ \E key \in conf.keys :
         \E r \in {Get(Called(t), key)} :
            /\ t' = Collect([Called(t) EXCEPT !.heap = GetNodes(Called(t), key),
                                              !.panic = r.panic])
            /\ last' = Call("Get", key, r.val, r.found, 0, FALSE)
    /\ ops' = ops + 1
    /\ UNCHANGED <<conf, M, hist, cm, seen, idle, commits>>

\* the orders in which a range over the set S may run
Orders(S) ==
    {f \in [1..Cardinality(S) -> S] : \A i, j \in 1..Cardinality(S) : i # j => f[i] # f[j]}

\* the recycle set the drain of Commit iterates over
Drained(e) == IF e.root = 0 THEN {} ELSE commitTrees(e).t.pagesToRecycle

DoCommit ==
    /\ Running
    /\ \E ord \in Orders(Drained(Called(t))) :
         \E r \in {Commit(Called(t), ord)} :
            /\ t' = Collect(r.t)
            /\ hist' = IF r.t.currentVersion # t.currentVersion THEN Append(hist, M) ELSE hist
            /\ last' = Call("Commit", NilKey, NilVal, FALSE, r.ret,
                            t.root # 0 /\ t.heap[t.root].t # "A")
    /\ cm' = M
    /\ idle' = (idle \/ (t.root # 0 /\ t.heap[t.root].t = "A"))
    /\ commits' = commits + 1
    /\ ops' = ops + 1
    /\ UNCHANGED <<conf, M, seen>>

\* the engine is closed and a new one is opened over the same three files
DoReopen ==
    /\ Running
    /\ t.files
    /\ t' = Collect(UseFiles(NewAvl3, t.pageFile, t.valueFile, t.verFile))
    /\ M' = cm
    /\ seen' = Gets(t)
    /\ last' = Call("UseFiles", NilKey, NilVal, last.op = "Commit", 0, FALSE)
    /\ ops' = ops + 1
    /\ UNCHANGED <<conf, hist, cm, idle, commits>>

\* an engine over three empty files; one-byte values, and calls enough for a
\* Commit that needs fewer page ids than the batch has recycled
InitRecycle ==
    Start(UseFiles(NewAvl3, <<>>, <<>>, <<>>),
          [keys |-> Keys, vals |-> {TinyVal}, maxOps |-> MaxOpsR], "UseFiles")

\* an engine in memory; a short key and a key as long as a page
InitLong ==
    Start(NewAvl3, [keys |-> {<<1>>, LongKey}, vals |-> {SmallVal}, maxOps |-> MaxOpsL],
          "NewAvl3")

\* an engine over three empty files, for behaviours with a crash in Commit
InitTorn ==
    Start(UseFiles(NewAvl3, <<>>, <<>>, <<>>),
          [keys |-> Keys, vals |-> {SmallVal}, maxOps |-> MaxOpsT], "UseFiles")

\* the process dies in the last WriteAt of Commit (1133), when k of the 8
\* bytes of the entry of the new version are in the version file, and a new
\* engine is opened over the three files; n of the call is k
DoTornCommit ==
    /\ Running
    /\ t.files /\ t.root # 0
    /\ \E ord \in Orders(Drained(Called(t))), k \in 1..7 :
         \E r \in {Commit(Called(t), ord)} :
            /\ ~r.t.panic
            /\ Len(r.t.verFile) = 8 * (r.t.currentVersion + 1)
            /\ t' = Collect(UseFiles(NewAvl3, r.t.pageFile, r.t.valueFile,
                                     SubSeq(r.t.verFile, 1, Len(r.t.verFile) - 8 + k)))
            /\ last' = Call("UseFiles", NilKey, NilVal, FALSE, k, FALSE)
    /\ M' = cm
    /\ seen' = Gets(t)
    /\ commits' = commits + 1
    /\ ops' = ops + 1
    /\ UNCHANGED <<conf, hist, cm, idle>>

\* an engine over three empty files; two different long values
InitValues ==
    Start(UseFiles(NewAvl3, <<>>, <<>>, <<>>),
          [keys |-> Keys, vals |-> {BigVal, BigVal2}, maxOps |-> MaxOpsV], "UseFiles")

\* an engine in memory; enough keys for rotations, and one-byte values, so
\* that a page holds a fork over a fork
InitTiny == Start(NewAvl3, [keys |-> KeysD, vals |-> {TinyVal}, maxOps |-> MaxOpsA], "NewAvl3")

\* the states nextPageId is called in: pages 1..maxPageId have been handed
\* out, some of them wait in the recycle set, some others are on the free
\* list; nextPageId reads neither the pages nor the trees
FreeLists(S) ==
    {f \in UNION {[1..n -> S] : n \in 0..MaxFree} :
        \A i, j \in DOMAIN f : i # j => f[i] # f[j]}

InitIds ==
    \E m \in 0..MaxPage :
       \E R \in SUBSET (1..m) :
          \E F \in FreeLists((1..m) \ R) :
             Start([NewAvl3 EXCEPT !.maxPageId = m, !.pagesToRecycle = R, !.freelist = F],
                   [keys |-> {}, vals |-> {}, maxOps |-> MaxCalls], "NewAvl3")

\* one call of nextPageId; allocs keeps every call since Init
DoNextPageId ==
    /\ Running
    /\ \E r \in {nextPageId(t)} :
          /\ t' = r.t
          /\ last' = Call("nextPageId", NilKey, NilVal, FALSE, r.id, FALSE)
    /\ ops' = ops + 1
    /\ UNCHANGED <<conf, M, hist, cm, seen, idle, commits>>

Next == DoInsert \/ DoDelete \/ DoGet \/ DoCommit

NextIds == DoNextPageId

NextFiles == DoInsert \/ DoDelete \/ DoGet \/ DoCommit \/ DoReopen

NextRecycle == DoInsert \/ DoDelete \/ DoCommit

NextTorn == DoInsert \/ DoDelete \/ DoCommit \/ DoReopen \/ DoTornCommit

Spec == Init /\ [][Next]_vars

SpecDeep == InitDeep /\ [][Next]_vars

SpecFiles == InitFiles /\ [][NextFiles]_vars

SpecIds == InitIds /\ [][NextIds]_vars

SpecRecycle == InitRecycle /\ [][NextRecycle]_vars

SpecLong == InitLong /\ [][Next]_vars

SpecTorn == InitTorn /\ [][NextTorn]_vars

SpecValues == InitValues /\ [][NextFiles]_vars

SpecTiny == InitTiny /\ [][Next]_vars

\* ------------------------------------------------- reading the trees
\* heightsCorrect: [height, correct]; r = 0 is the nil tree
RECURSIVE heightsCorrect(_, _)
heightsCorrect(h, r) ==
    IF r = 0 THEN [height |-> 0, correct |-> TRUE]
    ELSE IF h[r].t = "L" THEN [height |-> 1, correct |-> TRUE]
    ELSE IF h[r].t = "A" THEN [height |-> h[r].height, correct |-> TRUE]
    ELSE LET l == heightsCorrect(h, h[r].left)
             g == heightsCorrect(h, h[r].right)
             height == 1 + maxu32(l.height, g.height)
         IN  [height |-> height,
              correct |-> l.correct /\ g.correct /\ height = h[r].height]

RECURSIVE balanceCorrect(_, _)
balanceCorrect(h, r) ==
    IF r = 0 \/ h[r].t # "F" THEN TRUE
    ELSE LET lHeight == getheight(h, h[r].left)
             rHeight == getheight(h, h[r].right)
             balanced == IF rHeight >= lHeight THEN rHeight - lHeight < 2
                         ELSE lHeight - rHeight < 2
         IN  balanced /\ balanceCorrect(h, h[r].left) /\ balanceCorrect(h, h[r].right)

\* the key to value pairs of the tree at r, every arrow resolved through the
\* page store as Get resolves it: [ok, m], ok = FALSE when a page or a value
\* cannot be read
RECURSIVE Pairs(_, _, _)
Pairs(e, h, r) ==
    IF r = 0 THEN [ok |-> TRUE, m |-> {}]
    ELSE IF h[r].t = "L"
    THEN LET v == nvalue(e, h[r])
         IN  [ok |-> ~v.err, m |-> {<<h[r].key, v.val>>}]
    ELSE IF h[r].t = "F"
    THEN LET l == Pairs(e, h, h[r].left)
             g == Pairs(e, h, h[r].right)
         IN  [ok |-> l.ok /\ g.ok, m |-> l.m \cup g.m]
    ELSE LET d == deserialisePage(e, h, h[r].pageId, h[r].max, h[r].height)
         IN  IF d.err \/ d.point = 0 THEN [ok |-> FALSE, m |-> {}]
             ELSE Pairs(e, d.h, d.point)

\* the pairs of the tree whose root page is pageId
PagePairs(e, pageId) ==
    LET d == deserialisePage(e, <<>>, pageId, NilKey, 0)
    IN  IF d.err \/ d.point = 0 THEN [ok |-> FALSE, m |-> {}]
        ELSE Pairs(e, d.h, d.point)

Holds(p, m) == p.ok /\ p.m = m

KeysOf(m) == {p[1] : p \in m}

\* every fork under r: max is the max of the right child, the keys under the
\* left child are <= max(left), the keys under the right child are > max(left)
RECURSIVE Routed(_, _, _)
Routed(e, h, r) ==
    IF r = 0 \/ h[r].t = "L" THEN TRUE
    ELSE IF h[r].t = "A"
    THEN LET d == deserialisePage(e, h, h[r].pageId, h[r].max, h[r].height)
         IN  ~d.err /\ d.point # 0 /\ getmax(d.h, d.point) = h[r].max
             /\ Routed(e, d.h, d.point)
    ELSE LET l == Pairs(e, h, h[r].left)
             g == Pairs(e, h, h[r].right)
             lmax == getmax(h, h[r].left)
         IN  /\ l.ok /\ g.ok
             /\ h[r].max = getmax(h, h[r].right)
             /\ \A k \in KeysOf(l.m) : compare(k, lmax) <= 0
             /\ \A k \in KeysOf(g.m) : compare(k, lmax) > 0
             /\ Routed(e, h, h[r].left) /\ Routed(e, h, h[r].right)

\* what Insert, Delete and Get may not change outside Commit, and what a
\* call that does nothing leaves alone
Stores(e) ==
    [pageMap |-> e.pageMap, pageFile |-> e.pageFile, freelist |-> e.freelist,
     maxPageId |-> e.maxPageId, valueMap |-> e.valueMap, valueFile |-> e.valueFile,
     maxValueId |-> e.maxValueId]

Trees(e) ==
    [heap |-> e.heap, root |-> e.root, prevRoot |-> e.prevRoot,
     pagesToRecycle |-> e.pagesToRecycle]

\* what Get returns for every key is what the map m holds
GetsAre(e, m) == \A k \in AllKeys : Get(e, k) = Expect(m, k)

\* ------------------------------------------------------------ claims
\* C1: from a new tree, after any sequence of Insert and Delete, Get returns
\* for every key what the reference map holds
C1_RoundTrip == commits = 0 => (~t.panic /\ GetsAre(t, M))

\* a Delete that removed a key, leaving two keys, one with a long value
C1_Witness ==
    /\ commits = 0 /\ last.op = "Delete" /\ last.ret
    /\ Cardinality(M) = 2 /\ \E p \in M : p[2] = BigVal

\* C2: after every Commit, the empty batch included, Get returns for every
\* key what the reference map holds
C2_GetAfterCommit == last.op = "Commit" => (~t.panic /\ GetsAre(t, M))

\* C3: after a Commit of a batch on top of version V, the tree read from
\* versions[V] holds the pairs that were there before the batch
C3_OldVersion ==
    (last.op = "Commit" /\ last.dirty /\ ~t.panic /\ Len(hist) >= 2)
        => Holds(PagePairs(t, t.versions[t.currentVersion - 1]), hist[Len(hist) - 1])

\* C4: between commits the tree under prevRoot, its arrows resolved, holds
\* the pairs of the last committed version
C4_Shadow ==
    (Len(hist) >= 1 /\ ~t.panic) => Holds(Pairs(t, t.heap, t.prevRoot), hist[Len(hist)])

\* C5: after every Insert, Delete and Commit, in the tree under root and in
\* the tree under prevRoot, the heights of the two children of a fork differ
\* by at most one and the height of a fork is one more than the larger of
\* them, an arrow counting at the height it caches
C5_Balanced ==
    (last.op \in {"Insert", "Delete", "Commit"} /\ ~t.panic)
        => /\ heightsCorrect(t.heap, t.root).correct
           /\ balanceCorrect(t.heap, t.root)
           /\ heightsCorrect(t.heap, t.prevRoot).correct
           /\ balanceCorrect(t.heap, t.prevRoot)

\* a Delete that rotated, with a fork at the top of the tree under prevRoot
C5_Witness ==
    /\ last.op = "Delete" /\ ~t.panic /\ t.rotations # <<>>
    /\ t.prevRoot # 0 /\ t.heap[t.prevRoot].t = "F"

\* C6: after every Insert and Delete, at every fork of the tree under root,
\* max is the max of the right child, the keys under the left child are at
\* most the max of the left child, and the keys under the right child are
\* greater than it
C6_Routed ==
    (last.op \in {"Insert", "Delete"} /\ ~t.panic) => Routed(t, t.heap, t.root)

\* an Insert that rotated a tree of a committed version
C6_Witness ==
    /\ last.op = "Insert" /\ ~t.panic /\ t.rotations # <<>>
    /\ commits > 0 /\ Cardinality(M) >= 4

\* C7: after Commit, closing the engine and opening one over the same files,
\* Get returns for every key what it returned just before the closing
C7_Persistence ==
    (last.op = "UseFiles" /\ last.ret /\ \A k \in AllKeys : ~seen[k].panic)
        => (~t.panic /\ Gets(t) = seen)

\* C8: Insert of a key that is there with an equal value returns false and
\* changes neither the trees, nor the recycle set, nor the page store, nor
\* the value store
C8_InsertSame ==
    [][(last'.op = "Insert"
          /\ Get(t, last'.key) = [val |-> last'.value, found |-> TRUE, panic |-> FALSE])
        => (~last'.ret /\ ~t'.panic /\ Trees(t') = Trees(t) /\ Stores(t') = Stores(t))]_vars

\* an Insert of a pair that is there, on a root that is an arrow to a page
C8_Witness ==
    /\ last.op = "Insert" /\ ~last.ret /\ ~t.panic
    /\ Get(t, last.key) = [val |-> last.value, found |-> TRUE, panic |-> FALSE]
    /\ last.value = BigVal
    /\ t.root # 0 /\ t.heap[t.root].t = "A"

\* C9: nextPageId returns the largest id of the recycle set, removing it,
\* whenever that set is not empty; else it pops the id freed last from the
\* free list; else it increments maxPageId and returns it
C9_NextPageId ==
    \A i \in 1..Len(t.allocs) :
       LET c == t.allocs[i]
           \* what the call after this one finds
           found == IF i < Len(t.allocs)
                    THEN [recycle |-> t.allocs[i + 1].recycle,
                          freelist |-> t.allocs[i + 1].freelist,
                          maxPageId |-> t.allocs[i + 1].maxPageId]
                    ELSE [recycle |-> t.pagesToRecycle, freelist |-> t.freelist,
                          maxPageId |-> t.maxPageId]
       IN  /\ c.recycle # {}
                => /\ c.id \in c.recycle /\ \A q \in c.recycle : q <= c.id
                   /\ found = [recycle |-> c.recycle \ {c.id}, freelist |-> c.freelist,
                               maxPageId |-> c.maxPageId]
           /\ (c.recycle = {} /\ c.freelist # <<>>)
                => /\ c.id = c.freelist[Len(c.freelist)]
                   /\ found = [recycle |-> {},
                               freelist |-> SubSeq(c.freelist, 1, Len(c.freelist) - 1),
                               maxPageId |-> c.maxPageId]
           /\ (c.recycle = {} /\ c.freelist = <<>>)
                => /\ c.id = c.maxPageId + 1
                   /\ found = [recycle |-> {}, freelist |-> <<>>,
                               maxPageId |-> c.maxPageId + 1]

\* calls of all three kinds, one of them with two ids to choose from
C9_Witness ==
    /\ \E i \in 1..Len(t.allocs) :
          Cardinality(t.allocs[i].recycle) >= 2 /\ t.allocs[i].freelist # <<>>
    /\ \E i \in 1..Len(t.allocs) :
          t.allocs[i].recycle = {} /\ t.allocs[i].freelist # <<>>
    /\ \E i \in 1..Len(t.allocs) :
          t.allocs[i].recycle = {} /\ t.allocs[i].freelist = <<>>

\* C10: between commits no Get, Insert or Delete changes the page store, the
\* free list or maxPageId, and the recycle set only grows
C10_PagesStable ==
    [][last'.op \in {"Get", "Insert", "Delete"}
        => /\ t'.pageMap = t.pageMap
           /\ t'.pageFile = t.pageFile
           /\ t'.freelist = t.freelist
           /\ t'.maxPageId = t.maxPageId
           /\ t.pagesToRecycle \subseteq t'.pagesToRecycle]_vars

\* an Insert or Delete that has peeled pages of a committed version
C10_Witness ==
    /\ last.op \in {"Insert", "Delete"} /\ ~t.panic
    /\ t.pagesToRecycle # {} /\ DOMAIN t.pageMap # {}

\* the ids nextPageId handed out during the call
Allocated(e) == {e.allocs[i].id : i \in 1..Len(e.allocs)}

\* the ids of the pages commitPage wrote during the call
Written(e) == {e.written[i] : i \in 1..Len(e.written)}

\* C11: a page id that is in the recycle set when Commit begins, and that no
\* pinned page is written under, is handed out by nextPageId during that
\* Commit or is on the free list when Commit returns; and nextPageId makes a
\* new id only when the recycle set and the free list are empty
C11_Reuse ==
    /\ [][(last'.op = "Commit" /\ t.root # 0 /\ ~t'.panic)
            => \A id \in t.pagesToRecycle :
                  \/ id \in Allocated(t')
                  \/ id \in Written(t')
                  \/ InSeq(id, t'.freelist)]_vars
    /\ [](\A i \in 1..Len(t.allocs) :
             t.allocs[i].id = t.allocs[i].maxPageId + 1
                => (t.allocs[i].recycle = {} /\ t.allocs[i].freelist = <<>>))

\* the pages of the store
PagesOf(e) == IF e.files THEN e.pageFile ELSE e.pageMap

\* C12: every page Commit has written, for the tree under root and for the
\* tree under prevRoot, is at most PageSize bytes long
C12_PageBudget ==
    (last.op = "Commit" /\ ~t.panic)
        => \A id \in Written(t) : PagesOf(t)[id].size <= PageSize

\* the places of the events of one kind in the log
EventsOf(e, kind) == {i \in 1..Len(e.events) : e.events[i].kind = kind}

\* C13: in the order of the writes of one Commit, no page of the tree under
\* prevRoot comes before a page of the tree under root, and the entry of the
\* version file for the new version comes after every page and after the
\* entry for the previous version
C13_WriteOrder ==
    (last.op = "Commit" /\ ~t.panic /\ t.events # <<>>)
        => /\ \A i, j \in EventsOf(t, "page") :
                 (t.events[i].tree = "prev" /\ t.events[j].tree = "cur") => j < i
           /\ t.events[Len(t.events)] = VerEvent(t.currentVersion, t.versions[t.currentVersion])
           /\ \A i \in EventsOf(t, "ver") :
                 i < Len(t.events) => t.events[i].version = t.currentVersion - 1
           /\ \A i \in EventsOf(t, "page") : \A j \in EventsOf(t, "ver") : i < j

\* a Commit that wrote two pages of each tree and both entries
C13_Witness ==
    /\ last.op = "Commit" /\ ~t.panic
    /\ Cardinality({i \in EventsOf(t, "page") : t.events[i].tree = "cur"}) >= 2
    /\ Cardinality({i \in EventsOf(t, "page") : t.events[i].tree = "prev"}) >= 2
    /\ Cardinality(EventsOf(t, "ver")) = 2

\* the entry of the version file at the zero-based index v
EntryAt(file, v) == Uint64(SubSeq(file, 8 * v + 1, 8 * v + 8))

\* C14: an engine opened over a version file that ends with 1 to 7 bytes of
\* an entry has one version for each whole entry and none for the tail, and
\* its root is the page of the last whole entry
C14_TornTail ==
    (last.op = "UseFiles" /\ Len(t.verFile) % 8 # 0)
        => LET n == Len(t.verFile) \div 8
           IN  /\ t.currentVersion = n
               /\ DOMAIN t.versions = 0..(n - 1)
               /\ \A v \in 0..(n - 1) : t.versions[v] = EntryAt(t.verFile, v)
               /\ (n > 0 /\ ~t.panic)
                     => (t.root # 0 /\ t.heap[t.root].pageId = EntryAt(t.verFile, n - 1))

\* C15: after a Commit the entry of the version file at the zero-based index
\* V is the page id the version table holds for version V + 1
C15_VersionIndex ==
    (last.op = "Commit" /\ t.files /\ ~t.panic)
        => \A V \in 0..(Len(t.verFile) \div 8 - 1) :
              (V + 1) \in DOMAIN t.versions
                 => EntryAt(t.verFile, V) = t.versions[V + 1]

\* C16: after a Commit, and after opening the engine again over the files of
\* a Commit, Get returns for every key whose value is longer than
\* InlineValueMax the bytes last inserted for it (in behaviours without a
\* Commit of an empty batch, which C2 is about)
C16_LongValues ==
    (~idle /\ (last.op = "Commit" \/ (last.op = "UseFiles" /\ last.ret)))
        => \A p \in M :
              Len(p[2]) > InlineValueMax
                 => Get(t, p[1]) = [val |-> p[2], found |-> TRUE, panic |-> FALSE]

\* the calls were Insert(<<1>>), Insert(<<2>>) in either order, then
\* Insert(<<3>>), on a new engine
ThreeInserts ==
    /\ ops = 3 /\ commits = 0 /\ ~t.panic
    /\ KeysOf(M) = {<<1>>, <<2>>, <<3>>}
    /\ last.op = "Insert" /\ last.key = <<3>>

\* C17 as the spec words it: after the three inserts the root is a fork of
\* height 2 whose left subtree has height 1 and whose max is <<3>>
C17_ThreeLeaves ==
    ThreeInserts
        => /\ t.heap[t.root].t = "F"
           /\ t.heap[t.root].height = 2
           /\ getheight(t.heap, t.heap[t.root].left) = 1
           /\ t.heap[t.root].max = <<3>>

\* C17, amended: the root is a fork of height 3 and max <<3>>; its left child
\* is the leaf <<1>>, of height 1, its right child a fork of height 2 over
\* the leaves <<2>> and <<3>>; no rotation has run
C17_ThreeLeavesDeep ==
    ThreeInserts
        => LET h == t.heap
               f == h[t.root]
           IN  /\ f.t = "F" /\ f.height = 3 /\ f.max = <<3>>
               /\ h[f.left].t = "L" /\ h[f.left].key = <<1>>
               /\ getheight(h, f.left) = 1
               /\ h[f.right].t = "F" /\ h[f.right].height = 2 /\ h[f.right].max = <<3>>
               /\ h[h[f.right].left].t = "L" /\ h[h[f.right].left].key = <<2>>
               /\ h[h[f.right].right].t = "L" /\ h[h[f.right].right].key = <<3>>
               /\ t.rotations = <<>>

\* the three inserts, with a long value for <<3>>
C17_Witness ==
    /\ ThreeInserts
    /\ <<<<3>>, BigVal>> \in M
    /\ heightsCorrect(t.heap, t.root).height = 3

\* every arrow of the tree under r, and of the pages its arrows lead to,
\* resolves: its page is in the store and holds a node with the height and
\* the max key the arrow caches
RECURSIVE Resolves(_, _, _)
Resolves(e, h, r) ==
    LET Into(d) ==
            /\ ~d.err /\ d.point # 0
            /\ getheight(d.h, d.point) = h[r].height
            /\ getmax(d.h, d.point) = h[r].max
            /\ Resolves(e, d.h, d.point)
    IN  IF r = 0 \/ h[r].t = "L" THEN TRUE
        ELSE IF h[r].t = "F" THEN Resolves(e, h, h[r].left) /\ Resolves(e, h, h[r].right)
        ELSE Into(deserialisePage(e, h, h[r].pageId, h[r].max, h[r].height))

\* the same for the tree whose root page the version table holds for version v
VersionResolves(e, v) ==
    LET Into(d) == ~d.err /\ d.point # 0 /\ Resolves(e, d.h, d.point)
    IN  v \in DOMAIN e.versions
           => Into(deserialisePage(e, <<>>, e.versions[v], NilKey, 0))

\* C18: after every Insert, Delete and Commit every arrow under root, under
\* prevRoot and in the pages of versions[currentVersion] and
\* versions[currentVersion - 1] resolves (in behaviours without a Commit of
\* an empty batch, which C2 is about)
C18_ArrowsResolve ==
    (~idle /\ last.op \in {"Insert", "Delete", "Commit"} /\ ~t.panic)
        => /\ Resolves(t, t.heap, t.root)
           /\ Resolves(t, t.heap, t.prevRoot)
           /\ VersionResolves(t, t.currentVersion)
           /\ VersionResolves(t, t.currentVersion - 1)

\* C19: an Insert, Delete or Commit changes for no version W below
\* currentVersion the pairs read from the page of versions[W] (in behaviours
\* without a Commit of an empty batch, which C2 is about)
C19_VersionsStable ==
    [][(~idle' /\ last'.op \in {"Insert", "Delete", "Commit"} /\ ~t'.panic)
        => \A W \in DOMAIN t.versions :
              (W < t.currentVersion /\ PagePairs(t, t.versions[W]).ok)
                 => /\ W \in DOMAIN t'.versions
                    /\ PagePairs(t', t'.versions[W]) = PagePairs(t, t.versions[W])]_vars

\* the id of the last page written from the tree `tree` ("cur", "prev"), 0
\* when no page was written from it
LastPage(e, tree) ==
    LET Of == {i \in EventsOf(e, "page") : e.events[i].tree = tree}
    IN  IF Of = {} THEN 0 ELSE e.events[CHOOSE i \in Of : \A j \in Of : j <= i].id

\* C20: a Commit on a non-nil root that returns adds 1 to currentVersion;
\* then root is an Arrow whose page id is versions[currentVersion] and whose
\* back-arrow is prevRoot, prevRoot is another Arrow, without parent, with
\* the same page id, height and max, and, when prevRoot was not nil before,
\* versions[currentVersion - 1] is the id of the page the root of the tree
\* under prevRoot was written to
C20_CommitState ==
    [][(last'.op = "Commit" /\ ops' = ops + 1 /\ t.root # 0 /\ ~t'.panic)
        => /\ t'.currentVersion = t.currentVersion + 1
           /\ t'.root # 0 /\ t'.prevRoot # 0 /\ t'.prevRoot # t'.root
           /\ t'.heap[t'.root].t = "A" /\ t'.heap[t'.prevRoot].t = "A"
           /\ t'.versions[t'.currentVersion] = t'.heap[t'.root].pageId
           /\ t'.versions[t'.currentVersion] = LastPage(t', "cur")
           /\ t'.heap[t'.root].arrow = t'.prevRoot
           /\ t'.heap[t'.prevRoot].parent = 0
           /\ t'.heap[t'.prevRoot].pageId = t'.heap[t'.root].pageId
           /\ t'.heap[t'.prevRoot].height = t'.heap[t'.root].height
           /\ t'.heap[t'.prevRoot].max = t'.heap[t'.root].max
           /\ t'.heap[t'.root].height = getheight(t.heap, t.root)
           /\ t'.heap[t'.root].max = getmax(t.heap, t.root)
           /\ t.prevRoot # 0
                 => t'.versions[t'.currentVersion - 1] = LastPage(t', "prev")]_vars

\* a Commit of a second version, after a batch that peeled the root: both
\* trees were written, under two ids
C20_Witness ==
    /\ last.op = "Commit" /\ last.dirty /\ ~t.panic
    /\ t.currentVersion >= 2
    /\ LastPage(t, "prev") # 0
    /\ LastPage(t, "cur") # LastPage(t, "prev")
    /\ t.versions[t.currentVersion] = t.heap[t.root].pageId
    /\ t.versions[t.currentVersion - 1] = LastPage(t, "prev")

\* the page ids the arrows of the page id lead to
ArrowsOf(e, id) ==
    LET Of(page) == {page.nodes[i].pageId : i \in {j \in DOMAIN page.nodes : page.nodes[j].isPage}}
    IN  Of(ReadPage(e, id))

\* the page ids S and those the arrows of their pages lead to, at any depth
RECURSIVE Reach(_, _)
Reach(e, S) ==
    LET More(T) == IF T \subseteq S THEN S ELSE Reach(e, S \cup T)
    IN  More(UNION {ArrowsOf(e, id) : id \in S})

\* the page ids in use: those the versions of the version table refer to
InUse(e) == Reach(e, {e.versions[v] : v \in DOMAIN e.versions})

\* C21: in an engine opened over the files of a Commit, maxPageId is at least
\* every page id the recorded versions refer to, and maxValueId is at least
\* the length of the value file, so that no later page or value is written
\* over them (in behaviours without a Commit of an empty batch, which C2 is
\* about)
C21_CountersRestored ==
    (~idle /\ last.op = "UseFiles" /\ last.ret /\ ~t.panic /\ t.currentVersion > 0)
        => /\ \A id \in InUse(t) : id <= t.maxPageId
           /\ t.maxValueId >= Len(t.valueFile)

\* C22: an engine opened over the files of a closed one has its
\* currentVersion and, for every version, its entry of the version table,
\* and its root is an arrow to the page of versions[currentVersion]
C22_VersionsRestored ==
    [][(last'.op = "UseFiles" /\ t.currentVersion > 0 /\ ~t'.panic)
        => /\ t'.currentVersion = t.currentVersion
           /\ \A V \in DOMAIN t.versions :
                 V \in DOMAIN t'.versions /\ t'.versions[V] = t.versions[V]
           /\ t'.root # 0
           /\ t'.currentVersion \in DOMAIN t'.versions
           /\ t'.heap[t'.root].pageId = t'.versions[t'.currentVersion]]_vars

\* the nodes of the tree under r
NodesOf(h, r) == {n \in 1..Len(h) : InTree(h, r, n)}

\* the arrow a hangs in the tree under prevRoot: it is prevRoot, or the child
\* of its parent fork on the side parentC
BackLinked(e, a) ==
    LET h == e.heap
        p == h[a].parent
    IN  \/ a = e.prevRoot
        \/ /\ p # 0 /\ h[p].t = "F" /\ InTree(h, e.prevRoot, p)
           /\ h[a].parentC \in {-1, 1}
           /\ h[a].parentC = -1 => h[p].left = a
           /\ h[a].parentC = 1 => h[p].right = a

\* C23: after every call the back-arrow of every node of the tree under root
\* is an Arrow that is prevRoot or the child of its parent, a Fork of the
\* tree under prevRoot, on the side parentC
C23_BackLink ==
    ~t.panic
        => \A n \in NodesOf(t.heap, t.root) :
              t.heap[n].arrow # 0
                 => (t.heap[t.heap[n].arrow].t = "A" /\ BackLinked(t, t.heap[n].arrow))

\* a Fork of the tree under root whose left and right child carry the two
\* arrows of a fork of the tree under prevRoot that is not its root
C23_Witness ==
    /\ ~t.panic
    /\ \E n \in NodesOf(t.heap, t.root) :
          /\ t.heap[n].t = "F"
          /\ t.heap[t.heap[n].left].arrow # 0 /\ t.heap[t.heap[n].right].arrow # 0
          /\ t.heap[t.heap[t.heap[n].left].arrow].parent
                = t.heap[t.heap[t.heap[n].right].arrow].parent
          /\ t.heap[t.heap[t.heap[n].left].arrow].parent \notin {0, t.prevRoot}
          /\ t.heap[t.heap[t.heap[n].left].arrow].parentC = -1
          /\ t.heap[t.heap[t.heap[n].right].arrow].parentC = 1

RECURSIVE ValueIds(_, _, _)
ValueIds(e, h, r) ==
    LET Into(d) == IF d.err \/ d.point = 0 THEN {} ELSE ValueIds(e, d.h, d.point)
    IN  IF r = 0 THEN {}
        ELSE IF h[r].t = "L" THEN {h[r].valueId} \ {0}
        ELSE IF h[r].t = "F" THEN ValueIds(e, h, h[r].left) \cup ValueIds(e, h, h[r].right)
        ELSE Into(deserialisePage(e, h, h[r].pageId, h[r].max, h[r].height))

\* C25: a Delete frees no value id of a leaf of the tree read through
\* prevRoot, the tree the back-arrows lead to, and the pairs read through
\* prevRoot, long values included, are after the Delete what they were
\* before it
C25_DeleteKeepsValues ==
    [][(last'.op = "Delete" /\ ~t'.panic /\ Pairs(t, t.heap, t.prevRoot).ok)
        => /\ \A v \in ValueIds(t, t.heap, t.prevRoot) :
                 v \in DOMAIN t.valueMap
                    => (v \in DOMAIN t'.valueMap /\ t'.valueMap[v] = t.valueMap[v])
           /\ Pairs(t', t'.heap, t'.prevRoot) = Pairs(t, t.heap, t.prevRoot)]_vars

\* a Delete took one of two leaves away, the leaf of a key whose long value
\* is in the value map and is read through prevRoot
C25_Witness ==
    /\ last.op = "Delete" /\ last.ret /\ ~t.panic /\ M # {}
    /\ ~Get(t, last.key).found
    /\ t.valueMap # <<>>
    /\ \E p \in Pairs(t, t.heap, t.prevRoot).m :
          p[1] = last.key /\ Len(p[2]) > InlineValueMax

\* C26: when a Commit on a non-nil root returns, the recycle set is empty and
\* every page id that was in it at the drain is on the free list and, in
\* memory, out of the page map
C26_Drained ==
    [][(last'.op = "Commit" /\ t.root # 0 /\ ~t'.panic)
        => /\ t'.pagesToRecycle = {}
           /\ \A id \in Drained(Called(t)) :
                 /\ InSeq(id, t'.freelist)
                 /\ ~t.files => id \notin DOMAIN t'.pageMap]_vars

\* the places of the structure bits of a page that are the bits of its leaves
\* and arrows: the first bit, and every bit after the 0 that opens a fork;
\* left is the number of nodes not read yet
RECURSIVE NodeBits(_, _, _, _)
NodeBits(sbits, i, noLeaf, left) ==
    IF i > Len(sbits) THEN {}
    ELSE IF ~noLeaf THEN {i} \cup NodeBits(sbits, i + 1, TRUE, left - 1)
    ELSE IF sbits[i] = 1 THEN NodeBits(sbits, i + 1, TRUE, left)
    ELSE IF left = 0 THEN {}
    ELSE NodeBits(sbits, i + 1, FALSE, left)

\* the page holds a pinned node: a leaf or an arrow written with bit 0
HasPinned(page) ==
    \E i \in NodeBits(page.sbits, 1, FALSE, Len(page.nodes)) : page.sbits[i] = 0

\* the ids of the pages without a pinned node among those Peel reads from r
RECURSIVE Unpinned(_, _, _)
Unpinned(e, h, r) ==
    LET Into(d) == IF d.err \/ d.point = 0 THEN {} ELSE Unpinned(e, d.h, d.point)
        Here == IF HasPinned(ReadPage(e, h[r].pageId)) THEN {} ELSE {h[r].pageId}
    IN  IF r = 0 \/ h[r].t # "A" THEN {}
        ELSE Here \cup Into(deserialisePage(e, h, h[r].pageId, h[r].max, h[r].height))

\* the arrows of the tree under root: what an Insert or a Delete may peel
ArrowsUnder(e) == {r \in NodesOf(e.heap, e.root) : e.heap[r].t = "A"}

\* C27: Peel of an arrow of the tree under root adds to the recycle set the
\* ids of the pages it reads that hold no pinned node, and no other id
C27_PeelRecycles ==
    ~t.panic
        => \A r \in ArrowsUnder(t) :
              LET Of(p) == ~p.t.panic
                              => p.t.pagesToRecycle
                                   = t.pagesToRecycle \cup Unpinned(t, t.heap, r)
              IN  Of(Peel(t, r))

\* two arrows of the tree under root: Peel of one reads a page without a
\* pinned node that is not in the recycle set yet, Peel of the other reads
\* pages with pinned nodes only
C27_Witness ==
    /\ ~t.panic
    /\ \E r, q \in ArrowsUnder(t) :
          /\ ~Peel(t, r).t.panic /\ ~Peel(t, q).t.panic
          /\ ~(Unpinned(t, t.heap, r) \subseteq t.pagesToRecycle)
          /\ Unpinned(t, t.heap, q) = {}

\* the forks serialisePass1 has met in the call
ForkEvents(e) == {e.events[i] : i \in EventsOf(e, "fork")}

\* two pins are compatible: one of them is zero, or they have the same id and
\* the same flag
Compatible(a, b) == a.id = 0 \/ b.id = 0 \/ (a.id = b.id /\ a.pinned = b.pinned)

\* the counts of the fork e with both subtrees in its page
CountsLFR(e) ==
    [prefix |-> commonPrefix(e.L.prefix, e.R.prefix),
     keyCount |-> e.L.keyCount + e.R.keyCount, pageCount |-> e.L.pageCount + e.R.pageCount,
     keyBodySize |-> e.L.keyBodySize + e.R.keyBodySize,
     valBodySize |-> e.L.valBodySize + e.R.valBodySize,
     structBits |-> e.L.structBits + e.R.structBits + 2]

\* the fork e went into one page with both subtrees: no child became an
\* arrow and the counts returned are those of the three together
MergedLFR(e) ==
    /\ e.isL = e.wasL /\ e.isR = e.wasR
    /\ [c \in DOMAIN CountsLFR(e) |-> e.out[c]] = CountsLFR(e)

\* C28: in pass 1 of a Commit a fork and its two subtrees go into one page
\* exactly when the merged size is below PageSize and every two of the three
\* pins are compatible; the pin then returned is the fork's own when the pins
\* of the children are both zero, and the non-zero one otherwise
C28_Merge3 ==
    (last.op = "Commit" /\ ~t.panic)
        => \A e \in ForkEvents(t) :
              /\ MergedLFR(e)
                    <=> /\ sizeOf(CountsLFR(e)) < PageSize
                        /\ Compatible(e.L.pin, e.R.pin)
                        /\ Compatible(e.L.pin, e.pinF)
                        /\ Compatible(e.R.pin, e.pinF)
              /\ MergedLFR(e)
                    => e.out.pin = IF e.L.pin.id = 0 /\ e.R.pin.id = 0 THEN e.pinF
                                   ELSE IF e.L.pin.id # 0 THEN e.L.pin ELSE e.R.pin

\* a Commit met a fork that went into one page with its subtrees and took
\* the pin of a child, and a fork that was split though the three fit a page
C28_Witness ==
    /\ last.op = "Commit" /\ ~t.panic
    /\ \E e \in ForkEvents(t) :
          MergedLFR(e) /\ e.pinF.id = 0 /\ e.out.pin.id # 0
    /\ \E e \in ForkEvents(t) :
          /\ ~MergedLFR(e) /\ sizeOf(CountsLFR(e)) < PageSize
          /\ e.wasL # "A" /\ e.wasR # "A"

\* the counts of the fork e with the child on side b in its page and an
\* arrow of max key aMax to the other child
CountsFB(B, aMax) ==
    [prefix |-> commonPrefix(B.prefix, aMax),
     keyCount |-> B.keyCount, pageCount |-> B.pageCount + 1,
     keyBodySize |-> B.keyBodySize + Len(aMax), valBodySize |-> B.valBodySize,
     structBits |-> B.structBits + 3]

\* a page was written under id before the place i of the log
WrittenBefore(e, id, i) ==
    \E j \in EventsOf(e, "page") : j < i /\ e.events[j].id = id

\* the fork at the place i of the log was split as C29 says: the child A
\* (the left one if its size is strictly larger, else the right one) is an
\* arrow to a page written for it, unless it was an arrow before; the other
\* child B stays in the page of the fork if the two fit and their pins are
\* compatible, and is an arrow to a page written for it otherwise
SplitAsSaid(e, i) ==
    LET f == e.events[i]
        leftFirst == sizeOf(f.L) > sizeOf(f.R)
        A == IF leftFirst THEN f.L ELSE f.R
        B == IF leftFirst THEN f.R ELSE f.L
        aMax == IF leftFirst THEN f.maxL ELSE f.maxR
        wasA == IF leftFirst THEN f.wasL ELSE f.wasR
        isA == IF leftFirst THEN f.isL ELSE f.isR
        idA == IF leftFirst THEN f.idL ELSE f.idR
        wasB == IF leftFirst THEN f.wasR ELSE f.wasL
        isB == IF leftFirst THEN f.isR ELSE f.isL
        idB == IF leftFirst THEN f.idR ELSE f.idL
        fits == Compatible(B.pin, f.pinF) /\ sizeOf(CountsFB(B, aMax)) < PageSize
    IN  /\ isA = "A"
        /\ wasA # "A" => WrittenBefore(e, idA, i)
        /\ fits => /\ isB = wasB
                    /\ [c \in DOMAIN CountsFB(B, aMax) |-> f.out[c]] = CountsFB(B, aMax)
        /\ ~fits => /\ isB = "A"
                     /\ wasB # "A" => WrittenBefore(e, idB, i)
                     /\ f.out.keyCount = 0 /\ f.out.pageCount = 2
                     /\ f.out.structBits = 4

\* C29: in pass 1 of a Commit every fork that does not go into one page with
\* both subtrees is split as SplitAsSaid says
C29_Split ==
    (last.op = "Commit" /\ ~t.panic)
        => \A i \in EventsOf(t, "fork") :
              ~MergedLFR(t.events[i]) => SplitAsSaid(t, i)

\* a Commit met a fork with children of equal size, of which the right one
\* went to a page of its own and the left one stayed, and a fork whose
\* children, a leaf or a fork each, both went to pages of their own
C29_Witness ==
    /\ last.op = "Commit" /\ ~t.panic
    /\ \E e \in ForkEvents(t) :
          /\ ~MergedLFR(e) /\ sizeOf(e.L) = sizeOf(e.R)
          /\ e.wasR # "A" /\ e.isR = "A" /\ e.isL # "A"
    /\ \E e \in ForkEvents(t) :
          /\ ~MergedLFR(e)
          /\ e.wasL # "A" /\ e.wasR # "A" /\ e.isL = "A" /\ e.isR = "A"

\* the subtrees commitPage serialised since the call began, with their pages
TreeEvents(e) == {e.events[i] : i \in {j \in 1..Len(e.events) : e.events[j].kind = "tree"}}

\* the subtree deserialisePage(id, nil, 0) makes of the page ev.page stored as ev.id
ReadBack(ev) ==
    LET Of(d) == IF d.err THEN <<>> ELSE Subtree(d.h, d.point)
    IN  Of(deserialisePage([NewAvl3 EXCEPT !.pageMap = [q \in {ev.id} |-> ev.page]],
                           <<>>, ev.id, NilKey, 0))

\* C30: deserialising a page commitPage has just written gives the subtree
\* that was serialised: the same shape, the same leaf keys (prefix restored)
\* and values or value ids in the same order, the same arrow page ids,
\* heights and max keys, and every fork's height and max key as they were
C30_RoundTrip == \A ev \in TreeEvents(t) : ReadBack(ev) = ev.wrote

\* a Commit wrote a page holding a fork over a leaf and an arrow, and it read back
C30_Witness ==
    /\ last.op = "Commit" /\ ~t.panic
    /\ \E ev \in TreeEvents(t) :
          /\ ev.wrote.t = "F" /\ ReadBack(ev) = ev.wrote
          /\ {ev.wrote.left.t, ev.wrote.right.t} = {"L", "A"}

\* the arrows of the engine: Peel, Get, Insert and Delete call deserialisePage
\* with the page id, max key and height of one of them
Arrows(e) == {e.heap[n] : n \in {i \in 1..Len(e.heap) : e.heap[i].t = "A"}}

\* the subtrees under the nodes of the page id, each as Subtree gives it
PageNodes(e, id) ==
    LET Of(d) == IF d.err \/ d.point = 0 THEN {}
                 ELSE {Subtree(d.h, n) : n \in NodesOf(d.h, d.point)}
    IN  Of(deserialisePage(e, <<>>, id, NilKey, 0))

\* the max key and the height of the root of a subtree
Addressed(s) ==
    IF s.t = "L" THEN [max |-> s.key, height |-> 1] ELSE [max |-> s.max, height |-> s.height]

\* the point deserialisePage(id, key, height) returns, <<>> for nil
PointOf(e, id, key, height) ==
    LET Of(d) == IF d.err \/ d.point = 0 THEN <<>> ELSE Subtree(d.h, d.point)
    IN  Of(deserialisePage(e, <<>>, id, key, height))

\* deserialisePage(id, nil, 0) returns the root of the whole page subtree
WholePage(e, id) ==
    LET Of(d) == d.err \/ Len(d.h) = 0 \/ (d.point # 0 /\ NodesOf(d.h, d.point) = 1..Len(d.h))
    IN  Of(deserialisePage(e, <<>>, id, NilKey, 0))

\* C31: for the page, max key and height of every arrow of the engine, if the
\* page holds a node (leaf, fork or arrow) with that max key and that height,
\* deserialisePage returns a node with that max key and that height as point;
\* with key nil and height 0 it returns the root of the whole page subtree
C31_Point ==
    ~t.panic
        => \A a \in Arrows(t) :
              /\ WholePage(t, a.pageId)
              /\ [max |-> a.max, height |-> a.height]
                     \in {Addressed(s) : s \in PageNodes(t, a.pageId)}
                    => LET Is(s) == s # <<>> /\ Addressed(s) = [max |-> a.max, height |-> a.height]
                       IN  Is(PointOf(t, a.pageId, a.max, a.height))

\* the leaves of the tree under r whose value is longer than InlineValueMax,
\* every arrow resolved through the page store: [key, valueId, valueLen]
RECURSIVE LongLeaves(_, _, _)
LongLeaves(e, h, r) ==
    LET Into(d) == IF d.err \/ d.point = 0 THEN {} ELSE LongLeaves(e, d.h, d.point)
    IN  IF r = 0 THEN {}
        ELSE IF h[r].t = "L"
        THEN (IF h[r].valueLen > InlineValueMax
              THEN {[key |-> h[r].key, valueId |-> h[r].valueId, valueLen |-> h[r].valueLen]}
              ELSE {})
        ELSE IF h[r].t = "F" THEN LongLeaves(e, h, h[r].left) \cup LongLeaves(e, h, h[r].right)
        ELSE Into(deserialisePage(e, h, h[r].pageId, h[r].max, h[r].height))

\* the byte ranges [valueId - 1, valueId - 1 + valueLen) of a and b meet
Overlap(a, b) ==
    /\ a.valueId - 1 < b.valueId - 1 + b.valueLen
    /\ b.valueId - 1 < a.valueId - 1 + a.valueLen

\* C32: after a Commit every long value of the tree under root has a value
\* id that is not 0; an id the tree did not hold before the Commit is larger
\* than maxValueId was; the long values of two keys have different ids and,
\* with a value file, byte ranges that do not overlap
C32_ValueIds ==
    [][(last'.op = "Commit" /\ ~t'.panic /\ ~idle')
        => LET S == LongLeaves(t', t'.heap, t'.root)
               Old == {a.valueId : a \in LongLeaves(t, t.heap, t.root)}
           IN  /\ \A a \in S :
                     /\ a.valueId # 0
                     /\ a.valueId \notin Old => a.valueId > t.maxValueId
               /\ \A a, b \in S :
                     a.key # b.key
                        => /\ a.valueId # b.valueId
                           /\ t'.files => ~Overlap(a, b)]_vars

\* C33: a Commit on a nil root returns 0 and leaves currentVersion, the
\* versions table, root, prevRoot, the nodes, the recycle set, the free list,
\* the page store and the version file as they were; no version is recorded
C33_NilCommit ==
    [][(last'.op = "Commit" /\ t.root = 0)
        => /\ last'.n = 0
           /\ t'.currentVersion = t.currentVersion
           /\ t'.versions = t.versions
           /\ t'.root = 0
           /\ t'.prevRoot = t.prevRoot
           /\ t'.heap = t.heap
           /\ t'.pagesToRecycle = t.pagesToRecycle
           /\ t'.freelist = t.freelist
           /\ t'.maxPageId = t.maxPageId
           /\ PagesOf(t') = PagesOf(t)
           /\ t'.verFile = t.verFile
           /\ hist' = hist]_vars

\* a Commit found the root nil after a batch that deleted every key of the
\* version committed before
C33_Witness ==
    /\ last.op = "Commit" /\ last.n = 0 /\ ~t.panic
    /\ t.root = 0 /\ t.prevRoot # 0
    /\ t.currentVersion > 0 /\ M = {} /\ cm = {}
    /\ \E v \in DOMAIN hist : hist[v] # {}

C36_GetFrame ==
    [][last'.op = "Get"
        => /\ Trees(t') = Trees(t)
           /\ Stores(t') = Stores(t)
           /\ t'.versions = t.versions
           /\ t'.currentVersion = t.currentVersion
           /\ t'.verFile = t.verFile]_vars

\* a Get found a long value through the arrow at the root, after two Commits
C36_Witness ==
    /\ last.op = "Get" /\ last.ret /\ ~t.panic
    /\ Len(last.value) > InlineValueMax
    /\ t.root # 0 /\ t.heap[t.root].t = "A"
    /\ t.currentVersion > 1

====
